---- MODULE Spec2Model ----
(***************************************************************************)
(* State-machine model of streakkeeper: the Telegram dispatcher loop       *)
(* (telegram_streak_bot.py) and the streak CLI (streakkeeper.py).          *)
(*                                                                         *)
(* Dates are day numbers (1, 2, ...); 0 stands for None (no date).         *)
(* Conversation ids are short strings; "" is the empty / missing id.       *)
(***************************************************************************)
EXTENDS Integers, Sequences, FiniteSets, TLC

\* ---------------------------------------------------------------- bounds
\* Highest update id the transport issues.
MaxUpdateId == 2
\* Last calendar day the clock reaches.
MaxDay == 2
\* Largest --days value given to busy.
MaxBusyDays == 2
\* Plain (non-forced, non-dry-run) ticks recorded per calendar day.
MaxTicksPerDay == 2
\* Lines / sections the heartbeat and maintenance artifacts grow to.
MaxArtifact == 2
\* True is_reminder_due results followed within one calendar day.
MaxDueEvals == 2
\* Highest update id the transport issues in SpecRem.
RemMaxUpdateId == 2
\* Highest update id the transport issues in SpecSet.
SetMaxUpdateId == 2
\* Highest update id the transport issues in SpecStreak.
StreakMaxUpdateId == 1
\* Highest update id the transport issues in SpecLatch.
LatchMaxUpdateId == 2
\* Highest update id the transport issues in SpecAuth.
AuthMaxUpdateId == 2

\* ------------------------------------------------------- program constants
DefaultReminderHour == 21
DefaultReminderMinute == 30
NoDate == 0

VARIABLES
    pc,          \* position of the bot process in run_loop
    offset,      \* run_loop local: offset passed to get_updates
    state,       \* run_loop local: RuntimeState document in memory
    cfg,         \* run_loop local: Configuration document in memory
    updates,     \* run_loop local: updates of the fetched batch not yet taken
    cur,         \* the update being handled and the handler's locals
    exitCode,    \* process exit status once pc = "exited" (-1 while alive)
    diskCfg,     \* .streakkeeper/telegram.json
    diskState,   \* .streakkeeper/bot_state.json
    envChat,     \* TELEGRAM_ALLOWED_CHAT_ID of the process environment
    inbox,       \* transport: updates issued and not yet confirmed
    nextId,      \* transport: last update id issued
    today,       \* date.today()
    clock,       \* index into Times: datetime.now() time of day
    commitDay,   \* day of the newest commit in the repository log (0: none)
    skCfg,       \* .streakkeeper/config.json (busy_until, busy_note)
    skState,     \* .streakkeeper/state.json (last_commit_date)
    hbLines,     \* number of lines of the heartbeat artifact
    mtSections,  \* number of sections of the maintenance artifact
    tickLog,     \* history: today's plain tick invocations, in order
    remHist,     \* history: today's true is_reminder_due results and reminders sent
    inv,         \* history: the last streakkeeper.py invocation made by hand
    sent,        \* outbound transport calls of the current handler / iteration
    maxSeen,     \* history: highest update id loaded at start or taken from a batch
    handled,     \* history: ids whose handler returned normally
    failedUpd,   \* history: id whose handler raised, until the next fetch
    errAt,       \* history: where the last exception was raised
    stop,        \* history: how the process last ended (interrupt, crash, no_token)
    boundChat    \* history: chat bound by the last first-contact /start

vars == << pc, offset, state, cfg, updates, cur, exitCode, diskCfg, diskState,
           envChat, inbox, nextId, today, clock, commitDay,
           skCfg, skState, hbLines, mtSections, tickLog, remHist, inv, sent,
           maxSeen, handled, failedUpd, errAt, stop, boundChat >>

botLocal == << offset, state, cfg, updates, cur >>
disk     == << diskCfg, diskState >>
clk      == << today, clock, remHist >>
repo     == << commitDay, skCfg, skState, hbLines, mtSections, tickLog, inv >>
transport == << inbox, nextId >>
history  == << maxSeen, handled, failedUpd, boundChat >>
outcome  == << exitCode, errAt, stop >>

\* ------------------------------------------------------------ vocabulary
ChatIds == {"c1", "c2"}

\* Times of day the clock visits, in order: (hour, minute).
Times == << <<9, 0>>, <<21, 30>>, <<21, 31>> >>

Max(a, b) == IF a >= b THEN a ELSE b

\* str.strip() on the configuration values the model uses.
Strip(s) ==
    CASE s = " c1 " -> "c1"
      [] s = " "    -> ""
      [] OTHER      -> s

\* str.lower() on the command words the model uses.
Lower(w) ==
    CASE w = "/START"  -> "/start"
      [] w = "/Durum"  -> "/durum"
      [] w = "/ChatID" -> "/chatid"
      [] OTHER         -> w

\* COMMAND_ALIASES.get(cmd, cmd)
Alias(w) ==
    CASE w \in {"/help", "/yardim", "/komutlar", "help", "yardim", "komutlar"} -> "/help"
      [] w = "/start" -> "/start"
      [] w \in {"/status", "/durum", "status", "durum"} -> "/status"
      [] w \in {"/busy", "/mesgul", "busy", "mesgul"} -> "/busy"
      [] w \in {"/off", "/kapat", "off", "kapat"} -> "/off"
      [] w \in {"/tick", "tick"} -> "/tick"
      [] w \in {"/maintain", "/bakim", "maintain", "bakim"} -> "/maintain"
      [] w \in {"/setreminder", "/hatirlat", "setreminder", "hatirlat"} -> "/setreminder"
      [] w \in {"/chatid", "chatid"} -> "/chatid"
      [] w \in {"/panel", "panel"} -> "/panel"
      [] w \in {"/hatirlat-ac", "hatirlat-ac"} -> "/reminder_on"
      [] w \in {"/hatirlat-kapat", "hatirlat-kapat"} -> "/reminder_off"
      [] w \in {"/streak", "streak"} -> "/streak"
      [] OTHER -> w

\* A message text is its whitespace-separated tokens: first is the command
\* word before any "@handle" (w) and whether a handle follows (at); args are
\* the remaining tokens, each a sequence of characters.
NoText == [w |-> "", at |-> FALSE, args |-> << >>]

\* parse_command: (cmd, args); cmd = "" for an empty text.
parse_command(text) ==
    IF text.w = "" /\ ~text.at /\ text.args = << >>
    THEN [cmd |-> "", args |-> << >>]
    ELSE [cmd |-> Alias(Lower(text.w)), args |-> text.args]

\* A faulty callback_to_action that turns data outside the table into the
\* reminder_off action; C20 must reject it.
callback_to_action_UnknownSwitchesOff(data) ==
    CASE data = "act:streak"        -> "streak"
      [] data = "act:status"        -> "status"
      [] data = "act:tick"          -> "tick"
      [] data = "act:maintain"      -> "maintain"
      [] data = "act:busy1"         -> "busy1"
      [] data = "act:busy3"         -> "busy3"
      [] data = "act:off"           -> "off"
      [] data = "act:reminder_on"   -> "reminder_on"
      [] data = "act:reminder_off"  -> "reminder_off"
      [] data = "act:reminder_2130" -> "reminder_2130"
      [] data = "act:panel"         -> "panel"
      [] OTHER                      -> "reminder_off"

\* callback_to_action: "" for data outside the table.
callback_to_action(data) ==
    CASE data = "act:streak"        -> "streak"
      [] data = "act:status"        -> "status"
      [] data = "act:tick"          -> "tick"
      [] data = "act:maintain"      -> "maintain"
      [] data = "act:busy1"         -> "busy1"
      [] data = "act:busy3"         -> "busy3"
      [] data = "act:off"           -> "off"
      [] data = "act:reminder_on"   -> "reminder_on"
      [] data = "act:reminder_off"  -> "reminder_off"
      [] data = "act:reminder_2130" -> "reminder_2130"
      [] data = "act:panel"         -> "panel"
      [] OTHER                      -> ""

\* ------------------------------------------------- /setreminder argument
DecimalChars == {"0", "1", "2", "3", "4", "5", "6", "7", "8", "9"}
\* str.isdigit() also accepts digit characters int() rejects (superscripts).
IsDigitChars == DecimalChars \cup {"^2"}

DigitValue(ch) ==
    CASE ch = "0" -> 0 [] ch = "1" -> 1 [] ch = "2" -> 2 [] ch = "3" -> 3
      [] ch = "4" -> 4 [] ch = "5" -> 5 [] ch = "6" -> 6 [] ch = "7" -> 7
      [] ch = "8" -> 8 [] OTHER -> 9

HasChar(tok, ch) == \E i \in 1..Len(tok) : tok[i] = ch

FirstIndex(tok, ch) == CHOOSE i \in 1..Len(tok) : tok[i] = ch /\ \A j \in 1..(i - 1) : tok[j] # ch

\* str.split(":")
RECURSIVE SplitColon(_)
SplitColon(tok) ==
    IF ~HasChar(tok, ":") THEN << tok >>
    ELSE LET i == FirstIndex(tok, ":")
         IN  << SubSeq(tok, 1, i - 1) >> \o SplitColon(SubSeq(tok, i + 1, Len(tok)))

\* str.isdigit()
IsDigit(p) == Len(p) > 0 /\ \A i \in 1..Len(p) : p[i] \in IsDigitChars

\* int(p) raises ValueError unless every character is a decimal digit.
IntRaises(p) == \E i \in 1..Len(p) : p[i] \notin DecimalChars

RECURSIVE ToInt(_)
ToInt(p) == IF Len(p) = 0 THEN 0
            ELSE 10 * ToInt(SubSeq(p, 1, Len(p) - 1)) + DigitValue(p[Len(p)])

\* ------------------------------------------------------ AuthorizationGate
\* The conversation a Configuration is bound to: allowed_chat_id without
\* surrounding blanks; "" when none is bound.
BoundId(c) == Strip(c.allowed_chat_id)

\* A faulty gate that binds on the first command of any kind; C7 must reject
\* it.
authorize_chat_BindsOnAnyCommand(chat_id, cmd, c) ==
    LET allowed == Strip(c.allowed_chat_id)
    IN  IF allowed = ""
        THEN IF c.auto_bind_chat_on_start
             THEN [ok |-> TRUE, bound_now |-> TRUE, save |-> TRUE,
                   cfg |-> [c EXCEPT !.allowed_chat_id = chat_id]]
             ELSE [ok |-> FALSE, bound_now |-> FALSE, save |-> FALSE, cfg |-> c]
        ELSE IF allowed # chat_id
             THEN [ok |-> FALSE, bound_now |-> FALSE, save |-> FALSE, cfg |-> c]
             ELSE [ok |-> TRUE, bound_now |-> FALSE, save |-> FALSE, cfg |-> c]

\* A faulty gate that lets a start command of another conversation take the
\* binding over; C8 must reject it.
authorize_chat_RebindsOnStart(chat_id, cmd, c) ==
    LET allowed == Strip(c.allowed_chat_id)
    IN  IF allowed = "" \/ (allowed # chat_id /\ cmd = "/start")
        THEN IF c.auto_bind_chat_on_start /\ cmd = "/start"
             THEN [ok |-> TRUE, bound_now |-> TRUE, save |-> TRUE,
                   cfg |-> [c EXCEPT !.allowed_chat_id = chat_id]]
             ELSE [ok |-> FALSE, bound_now |-> FALSE, save |-> FALSE, cfg |-> c]
        ELSE IF allowed # chat_id
             THEN [ok |-> FALSE, bound_now |-> FALSE, save |-> FALSE, cfg |-> c]
             ELSE [ok |-> TRUE, bound_now |-> FALSE, save |-> FALSE, cfg |-> c]

\* A faulty gate that binds in memory without writing Configuration; C9 must
\* reject it.
authorize_chat_BindsWithoutSaving(chat_id, cmd, c) ==
    LET allowed == Strip(c.allowed_chat_id)
    IN  IF allowed = ""
        THEN IF c.auto_bind_chat_on_start /\ cmd = "/start"
             THEN [ok |-> TRUE, bound_now |-> TRUE, save |-> FALSE,
                   cfg |-> [c EXCEPT !.allowed_chat_id = chat_id]]
             ELSE [ok |-> FALSE, bound_now |-> FALSE, save |-> FALSE, cfg |-> c]
        ELSE IF allowed # chat_id
             THEN [ok |-> FALSE, bound_now |-> FALSE, save |-> FALSE, cfg |-> c]
             ELSE [ok |-> TRUE, bound_now |-> FALSE, save |-> FALSE, cfg |-> c]

\* A faulty authorize_chat that lets every conversation through once one is
\* bound; C26 must reject it.
authorize_chat_AllowsOtherChats(chat_id, cmd, c) ==
    LET allowed == Strip(c.allowed_chat_id)
    IN  IF allowed = ""
        THEN IF c.auto_bind_chat_on_start /\ cmd = "/start"
             THEN [ok |-> TRUE, bound_now |-> TRUE, save |-> TRUE,
                   cfg |-> [c EXCEPT !.allowed_chat_id = chat_id]]
             ELSE [ok |-> FALSE, bound_now |-> FALSE, save |-> FALSE, cfg |-> c]
        ELSE [ok |-> TRUE, bound_now |-> FALSE, save |-> FALSE, cfg |-> c]

\* authorize_chat: ok/bound_now are the returned pair, cfg the document in
\* memory afterwards, save whether save_json(BOT_CONFIG_PATH, cfg) is called.
authorize_chat(chat_id, cmd, c) ==
    LET allowed == Strip(c.allowed_chat_id)
    IN  IF allowed = ""
        THEN IF c.auto_bind_chat_on_start /\ cmd = "/start"
             THEN [ok |-> TRUE, bound_now |-> TRUE, save |-> TRUE,
                   cfg |-> [c EXCEPT !.allowed_chat_id = chat_id]]
             ELSE [ok |-> FALSE, bound_now |-> FALSE, save |-> FALSE, cfg |-> c]
        ELSE IF allowed # chat_id
             THEN [ok |-> FALSE, bound_now |-> FALSE, save |-> FALSE, cfg |-> c]
             ELSE [ok |-> TRUE, bound_now |-> FALSE, save |-> FALSE, cfg |-> c]

\* ------------------------------------------------------------ streak CLI
\* What the git commands of one invocation do: the first step that fails.
\*   norepo     rev-parse --is-inside-work-tree fails (ensure_git_repo raises)
\*   nobranch   config "branch" is empty and current_branch() returns ""
\*   addfail / commitfail / pushfail   that git command exits non-zero
\*   ok         every command succeeds
GitEnvs == {"norepo", "nobranch", "addfail", "commitfail", "pushfail", "ok"}

\* The files and repository facts an invocation reads and writes.
World == [busy_until |-> skCfg.busy_until, busy_note |-> skCfg.busy_note,
          last_commit_date |-> skState.last_commit_date,
          hb |-> hbLines, mt |-> mtSections, commitDay |-> commitDay]

NoRun == [cmd |-> "", rc |-> 0, out |-> "", hb |-> 0, mt |-> 0, saved |-> FALSE,
          add |-> FALSE, commit |-> FALSE, push |-> FALSE]

\* No invocation by hand yet: the subcommand's arguments and what it did.
NoInv == [force |-> FALSE, dry |-> FALSE, nopush |-> FALSE, days |-> 0, run |-> NoRun]

\* is_busy_active(config)[0]
is_busy_active(w, day) == w.busy_until # NoDate /\ day <= w.busy_until

\* has_commit_today()
has_commit_today(w, day) == w.commitDay = day

\* main() around a subcommand whose ensure_git_repo() raised.
NotARepo(w, name) == [w |-> w, run |-> [NoRun EXCEPT !.cmd = name, !.rc = 1, !.out = "err_norepo"]]

\* A faulty busy whose window is one day too long; C12 must reject it.
cmd_busy_OneDayLonger(w, day, days, note, g) ==
    IF g = "norepo" THEN NotARepo(w, "busy")
    ELSE LET until == day + Max(days, 1)
         IN  [w |-> [w EXCEPT !.busy_until = until,
                              !.busy_note = IF note # "" THEN note ELSE @],
              run |-> [NoRun EXCEPT !.cmd = "busy", !.out = "busy_on"]]

\* cmd_busy
cmd_busy(w, day, days, note, g) ==
    IF g = "norepo" THEN NotARepo(w, "busy")
    ELSE LET until == day + Max(days, 1) - 1
         IN  [w |-> [w EXCEPT !.busy_until = until,
                              !.busy_note = IF note # "" THEN note ELSE @],
              run |-> [NoRun EXCEPT !.cmd = "busy", !.out = "busy_on"]]

\* cmd_off
cmd_off(w, g) ==
    IF g = "norepo" THEN NotARepo(w, "off")
    ELSE [w |-> [w EXCEPT !.busy_until = NoDate],
          run |-> [NoRun EXCEPT !.cmd = "off", !.out = "busy_off"]]

\* cmd_status
cmd_status(w, day, g) ==
    IF g = "norepo" THEN NotARepo(w, "status")
    ELSE [w |-> w,
          run |-> [NoRun EXCEPT !.cmd = "status",
                                !.out = IF is_busy_active(w, day) THEN "AKTIF" ELSE "PASIF"]]

\* A faulty add / commit / push block that goes on to git commit after a
\* failed git add; C23 must reject it.
GitSteps_CommitsAfterFailedAdd(g, push, doneOut) ==
    [add    |-> TRUE,
     commit |-> TRUE,
     push   |-> push /\ g \notin {"addfail", "commitfail"},
     landed |-> g \notin {"addfail", "commitfail"},
     rc     |-> IF g = "addfail" \/ g = "commitfail" \/ (push /\ g = "pushfail") THEN 1 ELSE 0,
     out    |-> CASE g = "addfail" -> "err_add"
                  [] g = "commitfail" -> "err_commit"
                  [] push /\ g = "pushfail" -> "err_push"
                  [] OTHER -> doneOut]

\* The add / commit / push block shared by tick and maintain: which commands
\* run under git environment g and what the invocation returns (the output
\* of a failure is the diagnostic of the git command that failed).
GitSteps(g, push, doneOut) ==
    [add    |-> TRUE,
     commit |-> g # "addfail",
     push   |-> push /\ g \notin {"addfail", "commitfail"},
     landed |-> g \notin {"addfail", "commitfail"},
     rc     |-> IF g = "addfail" \/ g = "commitfail" \/ (push /\ g = "pushfail") THEN 1 ELSE 0,
     out    |-> CASE g = "addfail" -> "err_add"
                  [] g = "commitfail" -> "err_commit"
                  [] push /\ g = "pushfail" -> "err_push"
                  [] OTHER -> doneOut]

\* A faulty tick whose --force does not pass the once-per-day gate; C11 must
\* reject it.
cmd_tick_ForceKeepsDateGate(w, day, force, dry, g) ==
    LET tick == [NoRun EXCEPT !.cmd = "tick"]
        active == is_busy_active(w, day)
    IN  IF g = "norepo" THEN NotARepo(w, "tick")
        ELSE IF ~active /\ ~force
        THEN [w |-> w, run |-> [tick EXCEPT !.out = IF w.busy_until = NoDate
                                                    THEN "skip_not_busy" ELSE "skip_expired"]]
        ELSE IF w.last_commit_date = day
        THEN [w |-> w, run |-> [tick EXCEPT !.out = "skip_done"]]
        ELSE IF dry
        THEN [w |-> w, run |-> [tick EXCEPT !.out = "dry"]]
        ELSE LET w1 == [w EXCEPT !.hb = @ + 1, !.last_commit_date = day]
                 r1 == [tick EXCEPT !.hb = 1, !.saved = TRUE]
             IN  IF g = "nobranch"
                 THEN [w |-> w1, run |-> [r1 EXCEPT !.rc = 1, !.out = "err_branch"]]
                 ELSE LET s == GitSteps(g, TRUE, "done")
                      IN  [w |-> [w1 EXCEPT !.commitDay = IF s.landed THEN day ELSE @],
                           run |-> [r1 EXCEPT !.rc = s.rc, !.out = s.out, !.add = s.add,
                                              !.commit = s.commit, !.push = s.push]]

\* A faulty tick that records today as last_commit_date only once add,
\* commit and push went through; C24 must reject it.
cmd_tick_SavesDateAfterPush(w, day, force, dry, g) ==
    LET tick == [NoRun EXCEPT !.cmd = "tick"]
        active == is_busy_active(w, day)
    IN  IF g = "norepo" THEN NotARepo(w, "tick")
        ELSE IF ~active /\ ~force
        THEN [w |-> w, run |-> [tick EXCEPT !.out = IF w.busy_until = NoDate
                                                    THEN "skip_not_busy" ELSE "skip_expired"]]
        ELSE IF w.last_commit_date = day /\ ~force
        THEN [w |-> w, run |-> [tick EXCEPT !.out = "skip_done"]]
        ELSE IF dry
        THEN [w |-> w, run |-> [tick EXCEPT !.out = "dry"]]
        ELSE LET w1 == [w EXCEPT !.hb = @ + 1]
                 r1 == [tick EXCEPT !.hb = 1]
             IN  IF g = "nobranch"
                 THEN [w |-> w1, run |-> [r1 EXCEPT !.rc = 1, !.out = "err_branch"]]
                 ELSE LET s == GitSteps(g, TRUE, "done")
                      IN  [w |-> [w1 EXCEPT !.commitDay = IF s.landed THEN day ELSE @,
                                            !.last_commit_date = IF s.rc = 0 THEN day ELSE @],
                           run |-> [r1 EXCEPT !.rc = s.rc, !.out = s.out, !.add = s.add,
                                              !.commit = s.commit, !.push = s.push,
                                              !.saved = s.rc = 0]]

\* A faulty tick that does not record today as last_commit_date; C10 must
\* reject it.
cmd_tick_ForgetsDate(w, day, force, dry, g) ==
    LET tick == [NoRun EXCEPT !.cmd = "tick"]
        active == is_busy_active(w, day)
    IN  IF g = "norepo" THEN NotARepo(w, "tick")
        ELSE IF ~active /\ ~force
        THEN [w |-> w, run |-> [tick EXCEPT !.out = IF w.busy_until = NoDate
                                                    THEN "skip_not_busy" ELSE "skip_expired"]]
        ELSE IF w.last_commit_date = day /\ ~force
        THEN [w |-> w, run |-> [tick EXCEPT !.out = "skip_done"]]
        ELSE IF dry
        THEN [w |-> w, run |-> [tick EXCEPT !.out = "dry"]]
        ELSE LET w1 == [w EXCEPT !.hb = @ + 1]
                 r1 == [tick EXCEPT !.hb = 1]
             IN  IF g = "nobranch"
                 THEN [w |-> w1, run |-> [r1 EXCEPT !.rc = 1, !.out = "err_branch"]]
                 ELSE LET s == GitSteps(g, TRUE, "done")
                      IN  [w |-> [w1 EXCEPT !.commitDay = IF s.landed THEN day ELSE @],
                           run |-> [r1 EXCEPT !.rc = s.rc, !.out = s.out, !.add = s.add,
                                              !.commit = s.commit, !.push = s.push]]

\* cmd_tick with args.force = force, args.dry_run = dry
cmd_tick(w, day, force, dry, g) ==
    LET tick == [NoRun EXCEPT !.cmd = "tick"]
        active == is_busy_active(w, day)
    IN  IF g = "norepo" THEN NotARepo(w, "tick")
        ELSE IF ~active /\ ~force
        THEN [w |-> w, run |-> [tick EXCEPT !.out = IF w.busy_until = NoDate
                                                    THEN "skip_not_busy" ELSE "skip_expired"]]
        ELSE IF w.last_commit_date = day /\ ~force
        THEN [w |-> w, run |-> [tick EXCEPT !.out = "skip_done"]]
        ELSE IF dry
        THEN [w |-> w, run |-> [tick EXCEPT !.out = "dry"]]
        ELSE LET w1 == [w EXCEPT !.hb = @ + 1, !.last_commit_date = day]
                 r1 == [tick EXCEPT !.hb = 1, !.saved = TRUE]
             IN  IF g = "nobranch"
                 THEN [w |-> w1, run |-> [r1 EXCEPT !.rc = 1, !.out = "err_branch"]]
                 ELSE LET s == GitSteps(g, TRUE, "done")
                      IN  [w |-> [w1 EXCEPT !.commitDay = IF s.landed THEN day ELSE @],
                           run |-> [r1 EXCEPT !.rc = s.rc, !.out = s.out, !.add = s.add,
                                              !.commit = s.commit, !.push = s.push]]

\* A faulty maintain that is gated by busy mode as tick is; C21 must reject
\* it.
cmd_maintain_BusyGated(w, day, dry, nopush, g) ==
    LET mnt == [NoRun EXCEPT !.cmd = "maintain"]
    IN  IF g = "norepo" THEN NotARepo(w, "maintain")
        ELSE IF ~is_busy_active(w, day)
        THEN [w |-> w, run |-> [mnt EXCEPT !.out = "skip_not_busy"]]
        ELSE IF dry
        THEN [w |-> w, run |-> [mnt EXCEPT !.out = "dry"]]
        ELSE LET w1 == [w EXCEPT !.mt = @ + 1]
                 r1 == [mnt EXCEPT !.mt = 1]
             IN  IF g = "nobranch"
                 THEN [w |-> w1, run |-> [r1 EXCEPT !.rc = 1, !.out = "err_branch"]]
                 ELSE LET s == GitSteps(g, ~nopush, IF nopush THEN "done_nopush" ELSE "done")
                      IN  [w |-> [w1 EXCEPT !.commitDay = IF s.landed THEN day ELSE @],
                           run |-> [r1 EXCEPT !.rc = s.rc, !.out = s.out, !.add = s.add,
                                              !.commit = s.commit, !.push = s.push]]

\* A faulty maintain whose --dry-run still appends the section; C19 must
\* reject it.
cmd_maintain_DryRunAppends(w, day, dry, nopush, g) ==
    LET mnt == [NoRun EXCEPT !.cmd = "maintain"]
    IN  IF g = "norepo" THEN NotARepo(w, "maintain")
        ELSE IF dry
        THEN [w |-> [w EXCEPT !.mt = @ + 1], run |-> [mnt EXCEPT !.mt = 1, !.out = "dry"]]
        ELSE LET w1 == [w EXCEPT !.mt = @ + 1]
                 r1 == [mnt EXCEPT !.mt = 1]
             IN  IF g = "nobranch"
                 THEN [w |-> w1, run |-> [r1 EXCEPT !.rc = 1, !.out = "err_branch"]]
                 ELSE LET s == GitSteps(g, ~nopush, IF nopush THEN "done_nopush" ELSE "done")
                      IN  [w |-> [w1 EXCEPT !.commitDay = IF s.landed THEN day ELSE @],
                           run |-> [r1 EXCEPT !.rc = s.rc, !.out = s.out, !.add = s.add,
                                              !.commit = s.commit, !.push = s.push]]

\* cmd_maintain with args.dry_run = dry, args.no_push = nopush
cmd_maintain(w, day, dry, nopush, g) ==
    LET mnt == [NoRun EXCEPT !.cmd = "maintain"]
    IN  IF g = "norepo" THEN NotARepo(w, "maintain")
        ELSE IF dry
        THEN [w |-> w, run |-> [mnt EXCEPT !.out = "dry"]]
        ELSE LET w1 == [w EXCEPT !.mt = @ + 1]
                 r1 == [mnt EXCEPT !.mt = 1]
             IN  IF g = "nobranch"
                 THEN [w |-> w1, run |-> [r1 EXCEPT !.rc = 1, !.out = "err_branch"]]
                 ELSE LET s == GitSteps(g, ~nopush, IF nopush THEN "done_nopush" ELSE "done")
                      IN  [w |-> [w1 EXCEPT !.commitDay = IF s.landed THEN day ELSE @],
                           run |-> [r1 EXCEPT !.rc = s.rc, !.out = s.out, !.add = s.add,
                                              !.commit = s.commit, !.push = s.push]]

\* ---------------------------------------------------------- CommandRouter
\* The result of run_action / run_command: cfg is the Configuration in
\* memory afterwards, save whether save_json(BOT_CONFIG_PATH, cfg) is called,
\* w the files and repository afterwards, runs the streakkeeper.py
\* invocations made, raises whether an exception leaves the function.
Result(c, save, reply, w, runs) ==
    [cfg |-> c, save |-> save, reply |-> reply, w |-> w, runs |-> runs, raises |-> FALSE]

\* run_streakkeeper + "return out or (...)": the reply is the output.
CliResult(c, r) == Result(c, FALSE, r.run.out, r.w, << r.run >>)

\* A faulty run_action whose streak does not look at today's commits; C17
\* must reject it.
run_action_StreakIgnoresCommits(action, c, w, day, g1, g2) ==
    CASE action = "status" ->
            Result(c, FALSE, IF has_commit_today(w, day) THEN "status_commit" ELSE "status_nocommit",
                   w, << >>)
      [] action = "busy1" -> CliResult(c, cmd_busy(w, day, 1, "note", g1))
      [] action = "busy3" -> CliResult(c, cmd_busy(w, day, 3, "note", g1))
      [] action = "off" -> CliResult(c, cmd_off(w, g1))
      [] action = "tick" -> CliResult(c, cmd_tick(w, day, FALSE, FALSE, g1))
      [] action = "maintain" -> CliResult(c, cmd_maintain(w, day, FALSE, FALSE, g1))
      [] action = "streak" ->
            IF w.busy_until # NoDate
            THEN LET t == cmd_tick(w, day, FALSE, FALSE, g1)
                 IN  IF t.run.rc = 0 /\ t.run.out \notin {"skip_not_busy", "skip_expired", "skip_done"}
                     THEN CliResult(c, t)
                     ELSE LET m == cmd_maintain(t.w, day, FALSE, FALSE, g2)
                          IN  Result(c, FALSE, m.run.out, m.w, << t.run, m.run >>)
            ELSE CliResult(c, cmd_maintain(w, day, FALSE, FALSE, g1))
      [] action = "reminder_on" ->
            Result([c EXCEPT !.reminder_enabled = TRUE], TRUE, "reminder_on", w, << >>)
      [] action = "reminder_off" ->
            Result([c EXCEPT !.reminder_enabled = FALSE], TRUE, "reminder_off", w, << >>)
      [] action = "reminder_2130" ->
            Result([c EXCEPT !.reminder_hour = 21, !.reminder_minute = 30,
                             !.reminder_enabled = TRUE], TRUE, "reminder_2130", w, << >>)
      [] action = "panel" -> Result(c, FALSE, "panel", w, << >>)
      [] OTHER -> Result(c, FALSE, "unknown_action", w, << >>)

\* run_action(action, cfg); g1 and g2 are the git environments of the first
\* and second streakkeeper.py invocation.
run_action(action, c, w, day, g1, g2) ==
    CASE action = "status" ->
            Result(c, FALSE, IF has_commit_today(w, day) THEN "status_commit" ELSE "status_nocommit",
                   w, << >>)
      [] action = "busy1" -> CliResult(c, cmd_busy(w, day, 1, "note", g1))
      [] action = "busy3" -> CliResult(c, cmd_busy(w, day, 3, "note", g1))
      [] action = "off" -> CliResult(c, cmd_off(w, g1))
      [] action = "tick" -> CliResult(c, cmd_tick(w, day, FALSE, FALSE, g1))
      [] action = "maintain" -> CliResult(c, cmd_maintain(w, day, FALSE, FALSE, g1))
      [] action = "streak" ->
            IF has_commit_today(w, day)
            THEN Result(c, FALSE, "already_commit", w, << >>)
            ELSE IF w.busy_until # NoDate
            THEN LET t == cmd_tick(w, day, FALSE, FALSE, g1)
                 IN  IF t.run.rc = 0 /\ t.run.out \notin {"skip_not_busy", "skip_expired", "skip_done"}
                     THEN CliResult(c, t)
                     ELSE LET m == cmd_maintain(t.w, day, FALSE, FALSE, g2)
                          IN  Result(c, FALSE, m.run.out, m.w, << t.run, m.run >>)
            ELSE CliResult(c, cmd_maintain(w, day, FALSE, FALSE, g1))
      [] action = "reminder_on" ->
            Result([c EXCEPT !.reminder_enabled = TRUE], TRUE, "reminder_on", w, << >>)
      [] action = "reminder_off" ->
            Result([c EXCEPT !.reminder_enabled = FALSE], TRUE, "reminder_off", w, << >>)
      [] action = "reminder_2130" ->
            Result([c EXCEPT !.reminder_hour = 21, !.reminder_minute = 30,
                             !.reminder_enabled = TRUE], TRUE, "reminder_2130", w, << >>)
      [] action = "panel" -> Result(c, FALSE, "panel", w, << >>)
      [] OTHER -> Result(c, FALSE, "unknown_action", w, << >>)

\* The /setreminder branch of run_command.
set_reminder(args, c, w) ==
    IF Len(args) # 1 \/ ~HasChar(args[1], ":")
    THEN Result(c, FALSE, "usage", w, << >>)
    ELSE LET hm == SplitColon(args[1])
         IN  IF Len(hm) # 2 THEN Result(c, FALSE, "usage", w, << >>)
             ELSE IF ~(IsDigit(hm[1]) /\ IsDigit(hm[2]))
             THEN Result(c, FALSE, "bad_format", w, << >>)
             ELSE IF IntRaises(hm[1]) \/ IntRaises(hm[2])
             THEN [Result(c, FALSE, "", w, << >>) EXCEPT !.raises = TRUE]
             ELSE LET h == ToInt(hm[1])
                      m == ToInt(hm[2])
                  IN  IF h < 0 \/ h > 23 \/ m < 0 \/ m > 59
                      THEN Result(c, FALSE, "bad_format", w, << >>)
                      ELSE Result([c EXCEPT !.reminder_hour = h, !.reminder_minute = m,
                                            !.reminder_enabled = TRUE],
                                  TRUE, "reminder_set", w, << >>)

\* The /busy branch of run_command: argparse turns --days into an int and
\* exits with status 2 when it cannot.
busy_command(args, c, w, day, g) ==
    IF args = << >>
    THEN CliResult(c, cmd_busy(w, day, Max(c.default_busy_days, 1), "note", g))
    ELSE IF Len(args[1]) = 0 \/ IntRaises(args[1])
    THEN Result(c, FALSE, "err_usage", w, << [NoRun EXCEPT !.cmd = "busy", !.rc = 2, !.out = "err_usage"] >>)
    ELSE CliResult(c, cmd_busy(w, day, ToInt(args[1]), IF Len(args) > 1 THEN "note" ELSE "", g))

\* run_command(cmd, args, cfg, chat_id)
run_command(cmd, args, c, w, day, g1, g2) ==
    CASE cmd = "/start" -> Result(c, FALSE, "welcome", w, << >>)
      [] cmd = "/help" -> Result(c, FALSE, "help", w, << >>)
      [] cmd = "/panel" -> Result(c, FALSE, "panel", w, << >>)
      [] cmd = "/status" -> run_action("status", c, w, day, g1, g2)
      [] cmd = "/streak" -> run_action("streak", c, w, day, g1, g2)
      [] cmd = "/busy" -> busy_command(args, c, w, day, g1)
      [] cmd = "/off" -> run_action("off", c, w, day, g1, g2)
      [] cmd = "/tick" -> CliResult(c, cmd_tick(w, day, FALSE, FALSE, g1))
      [] cmd = "/maintain" -> CliResult(c, cmd_maintain(w, day, FALSE, FALSE, g1))
      [] cmd = "/setreminder" -> set_reminder(args, c, w)
      [] cmd = "/reminder_on" -> run_action("reminder_on", c, w, day, g1, g2)
      [] cmd = "/reminder_off" -> run_action("reminder_off", c, w, day, g1, g2)
      [] cmd = "/chatid" -> Result(c, FALSE, "chatid", w, << >>)
      [] OTHER -> Result(c, FALSE, "unknown_command", w, << >>)

\* ------------------------------------------------------ ReminderScheduler
\* A day on which is_reminder_due has not been true and no reminder was sent.
NoReminders == [due |-> 0, sent |-> 0]

\* (now.hour, now.minute) < (h, m)
TimeBefore(a, b) == a[1] < b[1] \/ (a[1] = b[1] /\ a[2] < b[2])

\* A faulty is_reminder_due that does not look at today's commits; C15 must
\* reject it.
is_reminder_due_IgnoresCommits(c, st, w, day, now) ==
    IF ~c.reminder_enabled THEN FALSE
    ELSE IF TimeBefore(now, << c.reminder_hour, c.reminder_minute >>) THEN FALSE
    ELSE st.last_reminder_date # day

\* is_reminder_due(bot_cfg, bot_state)
is_reminder_due(c, st, w, day, now) ==
    IF ~c.reminder_enabled THEN FALSE
    ELSE IF TimeBefore(now, << c.reminder_hour, c.reminder_minute >>) THEN FALSE
    ELSE IF st.last_reminder_date = day THEN FALSE
    ELSE ~has_commit_today(w, day)

\* ------------------------------------------------------------- documents
\* DEFAULT_BOT_STATE
DefaultBotState == [last_update_id |-> 0, last_reminder_date |-> NoDate]

\* DEFAULT_BOT_CONFIG, with the fields the dispatcher reads (bot_token is
\* whether the token is non-empty).
DefaultBotConfig ==
    [bot_token |-> FALSE, allowed_chat_id |-> "", auto_bind_chat_on_start |-> TRUE,
     reminder_hour |-> DefaultReminderHour, reminder_minute |-> DefaultReminderMinute,
     reminder_enabled |-> TRUE, default_busy_days |-> 1]

\* DEFAULT_CONFIG of streakkeeper.py and its default state document.
DefaultConfig == [busy_until |-> NoDate, busy_note |-> "Busy mode"]
DefaultState  == [last_commit_date |-> NoDate]

NoUpd == [update_id |-> 0, kind |-> "", chat |-> "", text |-> NoText, cbid |-> "", data |-> ""]
NoCur == [upd |-> NoUpd, cmd |-> "", args |-> << >>, bound_now |-> FALSE,
          action |-> "", reply |-> "", then |-> ""]

\* ensure_bot_config: the stored document with the environment override.
ensure_bot_config(d, env) ==
    IF Strip(env) # "" THEN [d EXCEPT !.allowed_chat_id = Strip(env)] ELSE d

\* All orders in which the transport may list the updates of S.
Orders(S) ==
    { q \in [1..Cardinality(S) -> S] : \A i, j \in 1..Cardinality(S) : i # j => q[i] # q[j] }

\* ------------------------------------------------------ shared sub-steps
ProcessGone ==
    /\ offset' = 0
    /\ state' = DefaultBotState
    /\ cfg' = DefaultBotConfig
    /\ updates' = << >>
    /\ cur' = NoCur
    /\ sent' = << >>

\* A faulty except branch that ends the process with status 1 instead of
\* sleeping; C5 must reject it.
Raise_EndsProcess(at) ==
    /\ pc' = "exited"
    /\ exitCode' = 1
    /\ errAt' = at
    /\ failedUpd' = IF at = "handler" THEN cur.upd.update_id ELSE failedUpd
    /\ updates' = << >>
    /\ cur' = NoCur
    /\ sent' = << >>
    /\ UNCHANGED stop

\* The except Exception branch of run_loop catches an exception raised at
\* `at`: the batch and the handler's locals are never read again.
Raise(at) ==
    /\ pc' = "backoff"
    /\ errAt' = at
    /\ failedUpd' = IF at = "handler" THEN cur.upd.update_id ELSE failedUpd
    /\ updates' = << >>
    /\ cur' = NoCur
    /\ sent' = << >>
    /\ UNCHANGED << exitCode, stop >>

\* The handler of the current update returns to the for loop of run_loop.
Return ==
    /\ pc' = "batch"
    /\ cur' = NoCur
    /\ handled' = handled \cup {cur.upd.update_id}
    /\ UNCHANGED << failedUpd, outcome >>

\* What the streakkeeper.py invocations of a command leave behind.
TickEntries(w, day, runs) ==
    IF runs # << >> /\ runs[1].cmd = "tick"
    THEN << [active |-> is_busy_active(w, day), fresh |-> w.last_commit_date # day,
             hb |-> runs[1].hb, add |-> runs[1].add, commit |-> runs[1].commit,
             out |-> runs[1].out] >>
    ELSE << >>

WriteWorld(w, entries) ==
    /\ w.hb <= MaxArtifact
    /\ w.mt <= MaxArtifact
    /\ Len(tickLog) + Len(entries) <= MaxTicksPerDay
    /\ skCfg' = [busy_until |-> w.busy_until, busy_note |-> w.busy_note]
    /\ skState' = [last_commit_date |-> w.last_commit_date]
    /\ hbLines' = w.hb
    /\ mtSections' = w.mt
    /\ commitDay' = w.commitDay
    /\ tickLog' = tickLog \o entries

\* The same when the invocation is not one made by hand.
ApplyWorld(w, entries) == WriteWorld(w, entries) /\ UNCHANGED inv

\* Git environments a command can meet: only commands that run
\* streakkeeper.py depend on it.
GitFor(name) ==
    IF name \in {"/streak", "/busy", "/off", "/tick", "/maintain",
                 "streak", "busy1", "busy3", "off", "tick", "maintain"}
    THEN GitEnvs ELSE {"ok"}
Git2For(name) == IF name \in {"/streak", "streak"} THEN GitEnvs ELSE {"ok"}

\* --------------------------------------------------------- UpdateDispatcher
\* run_loop up to the while loop: load the documents, check the token.
Start ==
    /\ pc \in {"down", "exited"}
    /\ LET c == ensure_bot_config(diskCfg, envChat)
       IN  IF ~c.bot_token
           THEN /\ pc' = "exited"
                /\ exitCode' = 1
                /\ stop' = "no_token"
                /\ UNCHANGED << botLocal, sent, maxSeen >>
           ELSE /\ pc' = "fetch"
                /\ exitCode' = -1
                /\ cfg' = c
                /\ state' = diskState
                /\ offset' = diskState.last_update_id + 1
                /\ maxSeen' = diskState.last_update_id
                /\ updates' = << >>
                /\ cur' = NoCur
                /\ sent' = << >>
                /\ UNCHANGED stop
    /\ errAt' = "none"
    /\ UNCHANGED << disk, envChat, transport, clk, repo, handled, failedUpd, boundChat >>

\* A faulty fetch that moves the offset forward when the call fails; C4 must
\* reject it.
GetUpdates_AdvancesOnFailure ==
    /\ pc = "fetch"
    /\ \/ /\ inbox' = { u \in inbox : u.update_id >= offset }
          /\ \E q \in Orders(inbox') : updates' = q
          /\ pc' = "batch"
          /\ failedUpd' = 0
          /\ errAt' = "none"
          /\ UNCHANGED << offset, cur, sent, exitCode, stop >>
       \/ /\ Raise("fetch")
          /\ offset' = IF offset <= MaxUpdateId THEN offset + 1 ELSE offset
          /\ UNCHANGED inbox
    /\ UNCHANGED << state, cfg, disk, envChat, nextId, clk, repo,
                    maxSeen, handled, boundChat >>

\* client.get_updates(offset, timeout): the transport forgets every update
\* below offset and returns the others, or the call raises.
GetUpdates ==
    /\ pc = "fetch"
    /\ \/ /\ inbox' = { u \in inbox : u.update_id >= offset }
          /\ \E q \in Orders(inbox') : updates' = q
          /\ pc' = "batch"
          /\ failedUpd' = 0
          /\ errAt' = "none"
          /\ UNCHANGED << cur, sent, exitCode, stop >>
       \/ /\ Raise("fetch")
          /\ UNCHANGED inbox
    /\ UNCHANGED << offset, state, cfg, disk, envChat, nextId, clk, repo,
                    maxSeen, handled, boundChat >>

\* A faulty bookkeeping that sets the offset just past every update it
\* takes, lower ids included; C28 must reject it.
TakeUpdate_OffsetFollowsUpdate ==
    /\ pc = "batch"
    /\ updates # << >>
    /\ LET upd == Head(updates)
           upd_id == upd.update_id
       IN  /\ offset' = upd_id + 1
           /\ state' = [state EXCEPT !.last_update_id = upd_id]
           /\ maxSeen' = Max(maxSeen, upd_id)
           /\ cur' = [NoCur EXCEPT !.upd = upd]
    /\ updates' = Tail(updates)
    /\ sent' = << >>
    /\ pc' = "handle"
    /\ UNCHANGED << cfg, disk, envChat, transport, clk, repo, handled, failedUpd,
                    boundChat, outcome >>

\* for upd in updates: the offset bookkeeping before the handler is called.
TakeUpdate ==
    /\ pc = "batch"
    /\ updates # << >>
    /\ LET upd == Head(updates)
           upd_id == upd.update_id
       IN  /\ offset' = IF upd_id >= offset THEN upd_id + 1 ELSE offset
           /\ state' = [state EXCEPT !.last_update_id = upd_id]
           /\ maxSeen' = Max(maxSeen, upd_id)
           /\ cur' = [NoCur EXCEPT !.upd = upd]
    /\ updates' = Tail(updates)
    /\ sent' = << >>
    /\ pc' = "handle"
    /\ UNCHANGED << cfg, disk, envChat, transport, clk, repo, handled, failedUpd,
                    boundChat, outcome >>

\* handle_message_update up to the authorization decision.
HandleMessage ==
    /\ pc = "handle"
    /\ cur.upd.kind = "message"
    /\ LET chat_id == cur.upd.chat
           p == parse_command(cur.upd.text)
           a == authorize_chat(chat_id, p.cmd, cfg)
       IN  IF chat_id = "" \/ p.cmd = ""
           THEN Return /\ UNCHANGED << cfg, diskCfg, boundChat, updates, sent >>
           ELSE /\ cfg' = a.cfg
                /\ IF a.save
                   THEN \/ /\ diskCfg' = a.cfg
                           /\ boundChat' = chat_id
                           /\ pc' = "run"
                           /\ cur' = [cur EXCEPT !.cmd = p.cmd, !.args = p.args,
                                                 !.bound_now = a.bound_now]
                           /\ UNCHANGED << updates, sent, handled, failedUpd, outcome >>
                        \/ /\ Raise("handler")
                           /\ UNCHANGED << diskCfg, boundChat, handled >>
                   ELSE /\ IF a.ok
                           THEN /\ pc' = "run"
                                /\ cur' = [cur EXCEPT !.cmd = p.cmd, !.args = p.args,
                                                      !.bound_now = a.bound_now]
                           ELSE /\ pc' = "send"
                                /\ cur' = [cur EXCEPT !.cmd = p.cmd, !.args = p.args,
                                             !.reply = IF Strip(cfg.allowed_chat_id) # ""
                                                       THEN "unauthorized" ELSE "need_start",
                                             !.then = "done"]
                        /\ UNCHANGED << diskCfg, boundChat, updates, sent, handled,
                                        failedUpd, outcome >>
    /\ UNCHANGED << offset, state, diskState, envChat, transport, clk, repo, maxSeen >>

\* A faulty handle_callback_update that authorizes a button press as a
\* /start command; C25 must reject it.
HandleCallback_AuthorizesAsStart ==
    /\ pc = "handle"
    /\ cur.upd.kind = "callback_query"
    /\ LET chat_id == cur.upd.chat
           a == authorize_chat(chat_id, "/start", cfg)
           action == callback_to_action(cur.upd.data)
       IN  IF cur.upd.cbid = "" \/ chat_id = ""
           THEN Return /\ UNCHANGED cfg
           ELSE /\ cfg' = a.cfg
                /\ pc' = "answer"
                /\ cur' = IF ~a.ok
                          THEN [cur EXCEPT !.reply = "unauthorized", !.then = "done"]
                          ELSE IF action = ""
                          THEN [cur EXCEPT !.reply = "unknown_button", !.then = "done"]
                          ELSE [cur EXCEPT !.action = action, !.reply = "accepted", !.then = "act"]
                /\ UNCHANGED << handled, failedUpd, outcome >>
    /\ UNCHANGED << offset, state, updates, disk, envChat, transport, clk, repo,
                    sent, maxSeen, boundChat >>

\* handle_callback_update up to the first answer_callback.
HandleCallback ==
    /\ pc = "handle"
    /\ cur.upd.kind = "callback_query"
    /\ LET chat_id == cur.upd.chat
           a == authorize_chat(chat_id, "/panel", cfg)
           action == callback_to_action(cur.upd.data)
       IN  IF cur.upd.cbid = "" \/ chat_id = ""
           THEN Return /\ UNCHANGED cfg
           ELSE /\ cfg' = a.cfg
                /\ pc' = "answer"
                /\ cur' = IF ~a.ok
                          THEN [cur EXCEPT !.reply = "unauthorized", !.then = "done"]
                          ELSE IF action = ""
                          THEN [cur EXCEPT !.reply = "unknown_button", !.then = "done"]
                          ELSE [cur EXCEPT !.action = action, !.reply = "accepted", !.then = "act"]
                /\ UNCHANGED << handled, failedUpd, outcome >>
    /\ UNCHANGED << offset, state, updates, disk, envChat, transport, clk, repo,
                    sent, maxSeen, boundChat >>

\* An update that is neither a message nor a callback query is passed over.
HandleOther ==
    /\ pc = "handle"
    /\ cur.upd.kind \notin {"message", "callback_query"}
    /\ Return
    /\ UNCHANGED << offset, state, cfg, updates, disk, envChat, transport, clk, repo,
                    sent, maxSeen, boundChat >>

\* The command or action of an authorized update runs: run_command in
\* handle_message_update, run_action in handle_callback_update.
Execute(name, r) ==
    IF r.raises
    THEN Raise("handler") /\ UNCHANGED << cfg, diskCfg, repo >>
    ELSE /\ cfg' = r.cfg
         /\ ApplyWorld(r.w, TickEntries(World, today, r.runs))
         /\ \/ /\ diskCfg' = IF r.save THEN r.cfg ELSE diskCfg
               /\ pc' = "send"
               /\ cur' = [cur EXCEPT !.reply = r.reply,
                            !.then = IF name \in {"/start", "/help", "/panel"}
                                     THEN "keyboard" ELSE "done"]
               /\ UNCHANGED << updates, sent, failedUpd, outcome >>
            \/ /\ r.save
               /\ Raise("handler")
               /\ UNCHANGED diskCfg

RunCommand ==
    /\ pc = "run"
    /\ \E g1 \in GitFor(cur.cmd), g2 \in Git2For(cur.cmd) :
          Execute(cur.cmd, run_command(cur.cmd, cur.args, cfg, World, today, g1, g2))
    /\ UNCHANGED << offset, state, diskState, envChat, transport, clk,
                    maxSeen, handled, boundChat >>

RunAction ==
    /\ pc = "act"
    /\ \E g1 \in GitFor(cur.action), g2 \in Git2For(cur.action) :
          Execute(cur.action, run_action(cur.action, cfg, World, today, g1, g2))
    /\ UNCHANGED << offset, state, diskState, envChat, transport, clk,
                    maxSeen, handled, boundChat >>

\* client.send_message of a handler: the reply, then the keyboard message.
SendMessage ==
    /\ pc = "send"
    /\ \/ /\ sent' = Append(sent, [call |-> "sendMessage", to |-> cur.upd.chat, text |-> cur.reply])
          /\ IF cur.then = "keyboard"
             THEN /\ pc' = "send"
                  /\ cur' = [cur EXCEPT !.reply = "keyboard", !.then = "done"]
                  /\ UNCHANGED << updates, handled, failedUpd, outcome >>
             ELSE Return /\ UNCHANGED updates
       \/ /\ Raise("handler")
          /\ UNCHANGED handled
    /\ UNCHANGED << offset, state, cfg, disk, envChat, transport, clk, repo,
                    maxSeen, boundChat >>

\* client.answer_callback of handle_callback_update.
AnswerCallback ==
    /\ pc = "answer"
    /\ \/ /\ sent' = Append(sent, [call |-> "answerCallbackQuery", to |-> cur.upd.chat, text |-> cur.reply])
          /\ IF cur.then = "act"
             THEN /\ pc' = "act"
                  /\ UNCHANGED << cur, updates, handled, failedUpd, outcome >>
             ELSE Return /\ UNCHANGED updates
       \/ /\ Raise("handler")
          /\ UNCHANGED handled
    /\ UNCHANGED << offset, state, cfg, disk, envChat, transport, clk, repo,
                    maxSeen, boundChat >>

\* After the batch: is_reminder_due and the lookup of the bound chat.
CheckReminder ==
    /\ pc = "batch"
    /\ updates = << >>
    /\ \/ LET due == is_reminder_due(cfg, state, World, today, Times[clock])
          IN  /\ due => remHist.due < MaxDueEvals
              /\ remHist' = IF due THEN [remHist EXCEPT !.due = @ + 1] ELSE remHist
              /\ pc' = IF due /\ Strip(cfg.allowed_chat_id) # "" THEN "remind" ELSE "save"
              /\ sent' = << >>
              /\ UNCHANGED << updates, cur, failedUpd, outcome >>
       \/ Raise("reminder") /\ UNCHANGED remHist
    /\ UNCHANGED << offset, state, cfg, disk, envChat, transport, today, clock, repo,
                    maxSeen, handled, boundChat >>

\* A faulty reminder step that records the latch although the notification
\* could not be sent; C27 must reject it.
SendReminder_LatchesOnFailure ==
    /\ pc = "remind"
    /\ \/ /\ sent' = Append(sent, [call |-> "sendMessage", to |-> Strip(cfg.allowed_chat_id),
                                   text |-> "reminder"])
          /\ state' = [state EXCEPT !.last_reminder_date = today]
          /\ remHist' = [remHist EXCEPT !.sent = @ + 1]
          /\ pc' = "save"
          /\ UNCHANGED << updates, cur, failedUpd, outcome >>
       \/ /\ Raise("reminder")
          /\ state' = [state EXCEPT !.last_reminder_date = today]
          /\ UNCHANGED remHist
    /\ UNCHANGED << offset, cfg, disk, envChat, transport, today, clock, repo,
                    maxSeen, handled, boundChat >>

\* The reminder notification and the latch that follows it.
SendReminder ==
    /\ pc = "remind"
    /\ \/ /\ sent' = Append(sent, [call |-> "sendMessage", to |-> Strip(cfg.allowed_chat_id),
                                   text |-> "reminder"])
          /\ state' = [state EXCEPT !.last_reminder_date = today]
          /\ remHist' = [remHist EXCEPT !.sent = @ + 1]
          /\ pc' = "save"
          /\ UNCHANGED << updates, cur, failedUpd, outcome >>
       \/ /\ Raise("reminder")
          /\ UNCHANGED << state, remHist >>
    /\ UNCHANGED << offset, cfg, disk, envChat, transport, today, clock, repo,
                    maxSeen, handled, boundChat >>

\* save_json(BOT_STATE_PATH, state) at the end of the iteration.
SaveState ==
    /\ pc = "save"
    /\ \/ /\ diskState' = state
          /\ pc' = "fetch"
          /\ UNCHANGED << updates, cur, sent, failedUpd, outcome >>
       \/ /\ Raise("save")
          /\ UNCHANGED diskState
    /\ UNCHANGED << offset, state, cfg, diskCfg, envChat, transport, clk, repo,
                    maxSeen, handled, boundChat >>

\* time.sleep(5) of the except branch returns.
Backoff ==
    /\ pc = "backoff"
    /\ pc' = "fetch"
    /\ UNCHANGED << botLocal, disk, envChat, transport, clk, repo, sent, history, outcome >>

\* Positions inside the try block of run_loop.
TryPcs == {"fetch", "batch", "handle", "run", "act", "send", "answer", "remind", "save"}

\* Exit statuses of an interpreter that dies of an unhandled KeyboardInterrupt.
UnhandledInterruptCodes == {1, 130}

\* KeyboardInterrupt is delivered to the process.
Interrupt ==
    /\ pc \in TryPcs \cup {"backoff"}
    /\ pc' = "exited"
    /\ stop' = "interrupt"
    /\ IF pc \in TryPcs
       THEN exitCode' = 0
       ELSE exitCode' \in UnhandledInterruptCodes
    /\ ProcessGone
    /\ UNCHANGED << disk, envChat, transport, clk, repo, history, errAt >>

\* The process is killed (no handler runs).
Crash ==
    /\ pc \in TryPcs \cup {"backoff"}
    /\ pc' = "down"
    /\ stop' = "crash"
    /\ ProcessGone
    /\ UNCHANGED << disk, envChat, transport, clk, repo, history, exitCode, errAt >>

\* ------------------------------------------------------------ environment
\* The transport issues the next update; its content is one of shapes. The
\* dispatcher reads the transport's queue only in get_updates, so an update
\* that arrives at any other moment is taken to arrive just before the next
\* fetch.
Arrive(shapes, maxId) ==
    /\ pc = "fetch"
    /\ nextId < maxId
    /\ nextId' = nextId + 1
    /\ \E sh \in shapes : inbox' = inbox \cup {[sh EXCEPT !.update_id = nextId + 1]}
    /\ UNCHANGED << pc, botLocal, disk, envChat, clk, repo, sent, history, outcome >>

\* Time passes within the day: the next time of day.
AdvanceClock ==
    /\ clock < Len(Times)
    /\ clock' = clock + 1
    /\ UNCHANGED << pc, botLocal, disk, envChat, transport, today, remHist, repo, sent,
                    history, outcome >>

\* Midnight: the next calendar day begins.
NextDay ==
    /\ today < MaxDay
    /\ today' = today + 1
    /\ clock' = 1
    /\ tickLog' = << >>
    /\ remHist' = NoReminders
    /\ UNCHANGED << pc, botLocal, disk, envChat, transport, commitDay, skCfg, skState,
                    hbLines, mtSections, inv, sent, history, outcome >>

\* Somebody commits to the repository.
ExternalCommit ==
    /\ commitDay # today
    /\ commitDay' = today
    /\ UNCHANGED << pc, botLocal, disk, envChat, transport, clk, skCfg, skState,
                    hbLines, mtSections, tickLog, inv, sent, history, outcome >>

\* -------------------------------------------------- the CLI entry point
botVars == << pc, botLocal, disk, envChat, transport, sent, history, outcome >>

CliBusy ==
    /\ \E days \in 0..MaxBusyDays, note \in {"", "note"}, g \in {"norepo", "ok"} :
          LET r == cmd_busy(World, today, days, note, g)
          IN  ApplyWorld(r.w, << >>)
    /\ UNCHANGED << botVars, clk >>

CliOff ==
    /\ \E g \in {"norepo", "ok"} :
          LET r == cmd_off(World, g)
          IN  ApplyWorld(r.w, << >>)
    /\ UNCHANGED << botVars, clk >>

CliStatus ==
    /\ \E g \in {"norepo", "ok"} :
          LET r == cmd_status(World, today, g)
          IN  ApplyWorld(r.w, << >>)
    /\ UNCHANGED << botVars, clk >>

CliTick ==
    /\ \E force \in BOOLEAN, dry \in BOOLEAN, g \in GitEnvs :
          LET r == cmd_tick(World, today, force, dry, g)
          IN  ApplyWorld(r.w,
                         IF force \/ dry THEN << >> ELSE TickEntries(World, today, << r.run >>))
    /\ UNCHANGED << botVars, clk >>

CliMaintain ==
    /\ \E dry \in BOOLEAN, nopush \in BOOLEAN, g \in GitEnvs :
          LET r == cmd_maintain(World, today, dry, nopush, g)
          IN  ApplyWorld(r.w, << >>)
    /\ UNCHANGED << botVars, clk >>

\* The same subcommands with the invocation recorded in inv: main() called
\* with the parsed arguments, returning the subcommand's exit status.
CallBusy ==
    /\ \E days \in (-1)..MaxBusyDays, g \in {"norepo", "ok"} :
          LET r == cmd_busy(World, today, days, "", g)
          IN  /\ WriteWorld(r.w, << >>)
              /\ inv' = [NoInv EXCEPT !.days = days, !.run = r.run]
    /\ UNCHANGED << botVars, clk >>

CallStatus ==
    /\ \E g \in {"norepo", "ok"} :
          LET r == cmd_status(World, today, g)
          IN  /\ WriteWorld(r.w, << >>)
              /\ inv' = [NoInv EXCEPT !.run = r.run]
    /\ UNCHANGED << botVars, clk >>

CallTick ==
    /\ \E force \in BOOLEAN, dry \in BOOLEAN, g \in GitEnvs :
          LET r == cmd_tick(World, today, force, dry, g)
          IN  /\ WriteWorld(r.w, << >>)
              /\ inv' = [NoInv EXCEPT !.force = force, !.dry = dry, !.run = r.run]
    /\ UNCHANGED << botVars, clk >>

CallMaintain ==
    /\ \E dry \in BOOLEAN, nopush \in BOOLEAN, g \in GitEnvs :
          LET r == cmd_maintain(World, today, dry, nopush, g)
          IN  /\ WriteWorld(r.w, << >>)
              /\ inv' = [NoInv EXCEPT !.dry = dry, !.nopush = nopush, !.run = r.run]
    /\ UNCHANGED << botVars, clk >>

\* ------------------------------------------------------- update contents
Msg(chat, w, at, args) ==
    [update_id |-> 0, kind |-> "message", chat |-> chat,
     text |-> [w |-> w, at |-> at, args |-> args], cbid |-> "", data |-> ""]
Cb(chat, cbid, data) ==
    [update_id |-> 0, kind |-> "callback_query", chat |-> chat,
     text |-> NoText, cbid |-> cbid, data |-> data]
Other == [NoUpd EXCEPT !.kind = "other"]

\* Updates delivered to the dispatcher in Spec: a command that is answered,
\* a message without text, a button press and an update of another kind.
LoopShapes ==
    { Msg("c1", "/ChatID", FALSE, << >>), Msg("c1", "", FALSE, << >>),
      Cb("c1", "q", "act:panel"), Other }

\* Updates delivered in SpecAuth: start commands from two conversations
\* (one spelled in capitals with a bot handle) and a command and a button
\* that write Configuration.
AuthShapes ==
    { Msg("c1", "/START", TRUE, << >>), Msg("c2", "/start", FALSE, << >>),
      Msg("c1", "/hatirlat-kapat", FALSE, << >>),
      Cb("c2", "q", "act:reminder_2130") }

\* Updates delivered in SpecRem: the reminder is switched off, switched on
\* and set to 09:00.
RemShapes ==
    { Msg("c1", "/hatirlat-kapat", FALSE, << >>), Msg("c1", "/hatirlat-ac", FALSE, << >>),
      Msg("c1", "/hatirlat", FALSE, << << "0", "9", ":", "0", "0" >> >>) }

\* /hatirlat arguments delivered in SpecSet: a well-formed time, a missing
\* minute, no token, two tokens, three fields, letters, an hour and a minute
\* out of range, and a superscript two (a digit to str.isdigit, not to int).
ReminderArgs ==
    { << << "2", "2", ":", "1", "5" >> >>,
      << << "9" >> >>,
      << >>,
      << << "2", "2", ":", "1", "5" >>, << "x" >> >>,
      << << "1", ":", "2", ":", "3" >> >>,
      << << "a", "b", ":", "1", "5" >> >>,
      << << "2", "4", ":", "0", "0" >> >>,
      << << "2", "2", ":", "6", "0" >> >>,
      << << "^2", ":", "3", "0" >> >> }

\* Updates delivered in SpecSet: /hatirlat with each argument, a button of
\* the panel and a button whose data is not in the table.
SetShapes ==
    { Msg("c1", "/hatirlat", FALSE, a) : a \in ReminderArgs }
        \cup { Cb("c1", "q", "act:reminder_off"), Cb("c1", "q", "act:bogus") }

\* Updates delivered in SpecStreak: the combined protective action as a
\* command and as a button.
StreakShapes == { Msg("c1", "/streak", FALSE, << >>), Cb("c1", "q", "act:streak") }

\* Updates delivered in SpecLatch: the /start that binds c1 and the command
\* that switches the reminder off.
LatchShapes == { Msg("c1", "/start", FALSE, << >>), Msg("c1", "/hatirlat-kapat", FALSE, << >>) }

\* ---------------------------------------------------------- specifications
InitWorld ==
    /\ today = 1
    /\ commitDay = NoDate
    /\ skCfg = DefaultConfig
    /\ skState = DefaultState
    /\ hbLines = 0
    /\ mtSections = 0
    /\ tickLog = << >>
    /\ remHist = NoReminders
    /\ inv = NoInv

InitBot ==
    /\ pc = "down"
    /\ offset = 0
    /\ state = DefaultBotState
    /\ cfg = DefaultBotConfig
    /\ updates = << >>
    /\ cur = NoCur
    /\ sent = << >>
    /\ exitCode = -1
    /\ diskState = DefaultBotState
    /\ inbox = {}
    /\ nextId = 0
    /\ maxSeen = 0
    /\ handled = {}
    /\ failedUpd = 0
    /\ errAt = "none"
    /\ stop = "none"
    /\ boundChat = ""

\* The dispatcher loop of an installation bound to conversation c1, in the
\* evening of a day without a commit; the process is not running yet.
Init ==
    /\ InitBot
    /\ InitWorld
    /\ clock = Len(Times)
    /\ \E tok \in BOOLEAN :
          diskCfg = [DefaultBotConfig EXCEPT !.bot_token = tok, !.allowed_chat_id = "c1"]
    /\ envChat = ""

Next ==
    \/ Start
    \/ GetUpdates
    \/ TakeUpdate
    \/ HandleMessage
    \/ HandleCallback
    \/ HandleOther
    \/ RunCommand
    \/ RunAction
    \/ SendMessage
    \/ AnswerCallback
    \/ CheckReminder
    \/ SendReminder
    \/ SaveState
    \/ Backoff
    \/ Interrupt
    \/ Crash
    \/ Arrive(LoopShapes, MaxUpdateId)

Spec == Init /\ [][Next]_vars

\* The authorization gate: installations with and without a bound
\* conversation (stored with or without surrounding blanks, or given by the
\* environment), with auto-bind on or off, restarted after crashes, on a
\* morning before the reminder time.
InitAuth ==
    /\ InitBot
    /\ InitWorld
    /\ clock = 1
    /\ \E a \in {"", " ", "c1", " c1 "}, b \in BOOLEAN :
          diskCfg = [DefaultBotConfig EXCEPT !.bot_token = TRUE, !.allowed_chat_id = a,
                                            !.auto_bind_chat_on_start = b]
    /\ envChat \in {"", "c2"}

NextAuth ==
    \/ Start
    \/ GetUpdates
    \/ TakeUpdate
    \/ HandleMessage
    \/ HandleCallback
    \/ RunCommand
    \/ RunAction
    \/ SendMessage
    \/ AnswerCallback
    \/ CheckReminder
    \/ SaveState
    \/ Backoff
    \/ Crash
    \/ Arrive(AuthShapes, AuthMaxUpdateId)

SpecAuth == InitAuth /\ [][NextAuth]_vars

\* The CLI: busy, off and tick invoked by hand, day after day.
InitCli ==
    /\ InitBot
    /\ InitWorld
    /\ clock = 1
    /\ diskCfg = DefaultBotConfig
    /\ envChat = ""

NextCli ==
    \/ CliBusy
    \/ CliOff
    \/ CliTick
    \/ NextDay

SpecCli == InitCli /\ [][NextCli]_vars

\* The reminder through a day: the dispatcher of an installation bound to c1
\* runs from the morning on while the time of day advances, reminder
\* commands arrive and somebody may commit.
InitRem ==
    /\ InitBot
    /\ InitWorld
    /\ clock = 1
    /\ diskCfg = [DefaultBotConfig EXCEPT !.bot_token = TRUE, !.allowed_chat_id = "c1"]
    /\ envChat = ""

NextRem ==
    \/ Start
    \/ GetUpdates
    \/ TakeUpdate
    \/ HandleMessage
    \/ RunCommand
    \/ SendMessage
    \/ CheckReminder
    \/ SendReminder
    \/ SaveState
    \/ Backoff
    \/ AdvanceClock
    \/ ExternalCommit
    \/ Arrive(RemShapes, RemMaxUpdateId)

SpecRem == InitRem /\ [][NextRem]_vars

\* Commands and buttons that write Configuration, sent to the dispatcher of
\* an installation bound to c1 in the morning (no reminder is due).
InitSet ==
    /\ InitBot
    /\ InitWorld
    /\ clock = 1
    /\ diskCfg = [DefaultBotConfig EXCEPT !.bot_token = TRUE, !.allowed_chat_id = "c1"]
    /\ envChat = ""

NextSet ==
    \/ Start
    \/ GetUpdates
    \/ TakeUpdate
    \/ HandleMessage
    \/ HandleCallback
    \/ AnswerCallback
    \/ RunCommand
    \/ RunAction
    \/ SendMessage
    \/ CheckReminder
    \/ SaveState
    \/ Backoff
    \/ Arrive(SetShapes, SetMaxUpdateId)

SpecSet == InitSet /\ [][NextSet]_vars

\* The combined protective action asked for by the bound conversation while,
\* between two polls, the CLI is used by hand, somebody commits and days pass.
InitStreak ==
    /\ InitBot
    /\ InitWorld
    /\ clock = 1
    /\ diskCfg = [DefaultBotConfig EXCEPT !.bot_token = TRUE, !.allowed_chat_id = "c1"]
    /\ envChat = ""

\* streakkeeper.py busy --days 1, run by hand between two polls.
BetweenPollsBusy ==
    /\ pc = "fetch"
    /\ LET r == cmd_busy(World, today, 1, "", "ok")
       IN  ApplyWorld(r.w, << >>)
    /\ UNCHANGED << botVars, clk >>

\* streakkeeper.py tick, run by hand between two polls; its commit fails or
\* goes through.
BetweenPollsTick ==
    /\ pc = "fetch"
    /\ \E g \in {"commitfail", "ok"} :
          LET r == cmd_tick(World, today, FALSE, FALSE, g)
          IN  ApplyWorld(r.w, << >>)
    /\ UNCHANGED << botVars, clk >>

BetweenPollsCommit == pc = "fetch" /\ ExternalCommit
BetweenPollsDay    == pc = "fetch" /\ NextDay

NextStreak ==
    \/ Start
    \/ GetUpdates
    \/ TakeUpdate
    \/ HandleMessage
    \/ HandleCallback
    \/ AnswerCallback
    \/ RunCommand
    \/ RunAction
    \/ SendMessage
    \/ CheckReminder
    \/ SaveState
    \/ Backoff
    \/ Arrive(StreakShapes, StreakMaxUpdateId)
    \/ BetweenPollsBusy
    \/ BetweenPollsTick
    \/ BetweenPollsCommit
    \/ BetweenPollsDay

SpecStreak == InitStreak /\ [][NextStreak]_vars

\* The reminder of an installation that starts with or without a bound
\* conversation: the dispatcher runs from the morning on, c1 may bind itself
\* with /start, and somebody may commit.
InitLatch ==
    /\ InitBot
    /\ InitWorld
    /\ clock = 1
    /\ \E a \in {"", " ", "c1"} :
          diskCfg = [DefaultBotConfig EXCEPT !.bot_token = TRUE, !.allowed_chat_id = a]
    /\ envChat = ""

NextLatch ==
    \/ Start
    \/ GetUpdates
    \/ TakeUpdate
    \/ HandleMessage
    \/ RunCommand
    \/ SendMessage
    \/ CheckReminder
    \/ SendReminder
    \/ SaveState
    \/ Backoff
    \/ AdvanceClock
    \/ ExternalCommit
    \/ Arrive(LatchShapes, LatchMaxUpdateId)

SpecLatch == InitLatch /\ [][NextLatch]_vars

\* Single invocations of the CLI, each recorded with its arguments and its
\* result, day after day.
NextCall ==
    \/ CallBusy
    \/ CallStatus
    \/ CallTick
    \/ CallMaintain
    \/ NextDay

SpecCall == InitCli /\ [][NextCall]_vars

\* ------------------------------------------------------------ claims C1-C6
\* Positions of a live dispatcher process.
Running == TryPcs \cup {"backoff"}

\* C1: once every update of a batch has been taken, the last_update_id held in
\* RuntimeState equals the highest update id seen so far (the value loaded at
\* start or any id taken since), whatever the order of ids inside the batch.
C1_LastUpdateIdIsMaxSeen ==
    (pc \in {"remind", "save"} \/ (pc = "batch" /\ updates = << >>))
        => state.last_update_id = maxSeen

\* C2: after a handler raised for an update, the offset of the next fetch is
\* not past that update, so the failing update is fetched again.
C2_FailingUpdateFetchedAgain ==
    (pc \in {"backoff", "fetch"} /\ failedUpd # 0) => offset <= failedUpd

\* C3: after a crash and a restart from the persisted RuntimeState, no update
\* whose handler had already returned is dispatched to a handler again.
C3_NoRedispatchAfterCrash ==
    ~ (pc = "handle" /\ stop = "crash" /\ cur.upd.update_id \in handled)

\* C4: a step in which get_updates fails leaves the offset, RuntimeState (in
\* memory and on disk), the set of handled updates and the transport's queue
\* as they were, and the fetch that follows the backoff uses the same offset.
C4_FetchFailureKeepsOffset ==
    [][ /\ (pc = "fetch" /\ pc' = "backoff")
            => /\ errAt' = "fetch"
               /\ offset' = offset
               /\ state' = state
               /\ diskState' = diskState
               /\ handled' = handled
               /\ maxSeen' = maxSeen
               /\ inbox' = inbox
        /\ (pc = "backoff" /\ errAt = "fetch" /\ pc' = "fetch")
            => /\ offset' = offset
               /\ state' = state
               /\ handled' = handled ]_vars

\* C4 witness: the loop is fetching again after a failed fetch, with an offset
\* that earlier batches had already moved.
C4_Witness ==
    pc = "fetch" /\ errAt = "fetch" /\ offset > 1

\* C5: a running dispatcher leaves the loop only by an interrupt or by being
\* killed; every recorded exception of fetch, handling, reminder evaluation or
\* persisting leads to the backoff, and the backoff leads back to the fetch.
C5_ExceptionsNeverEndTheLoop ==
    [][ /\ pc \in Running
            => \/ pc' \in Running
               \/ pc' = "exited" /\ stop' = "interrupt"
               \/ pc' = "down" /\ stop' = "crash"
        /\ (pc \in TryPcs /\ errAt' # errAt /\ errAt' # "none")
            => pc' = "backoff"
        /\ (pc = "backoff" /\ pc' \in TryPcs) => pc' = "fetch" ]_vars

\* C5 witness: the loop is back at the fetch after persisting RuntimeState
\* raised.
C5_Witness ==
    pc = "fetch" /\ errAt = "save" /\ stop = "none"

\* C6: a process ended by an interrupt has exit status 0, wherever the
\* interrupt arrived.
C6_InterruptExitsZero ==
    (pc = "exited" /\ stop = "interrupt") => exitCode = 0

\* ------------------------------------------------------------ claims C7-C9
\* C7: every call of authorize_chat made by a handler has the result and the
\* effect of this table, the bound id being allowed_chat_id without
\* surrounding blanks. Unbound: allowed and just bound iff auto-bind is on
\* and the command is /start, and then the conversation becomes the bound id
\* and the whole Configuration is on disk; otherwise rejected, Configuration
\* untouched in memory and on disk. Bound: allowed iff the conversation equals
\* the bound id, never just bound, Configuration untouched. A button press is
\* authorized as /panel and so never binds. The call raises only when the
\* write of a new binding fails.
C7_AuthorizeTable ==
    [][ LET chat  == cur.upd.chat
            cmd   == parse_command(cur.upd.text).cmd
            bound == BoundId(cfg)
            start == cfg.auto_bind_chat_on_start /\ cmd = "/start"
        IN  /\ (/\ pc = "handle" /\ cur.upd.kind = "message"
                /\ chat # "" /\ cmd # "" /\ pc' \in {"run", "send"})
                => IF bound = ""
                   THEN IF start
                        THEN /\ pc' = "run"
                             /\ cur'.bound_now
                             /\ cfg' = [cfg EXCEPT !.allowed_chat_id = chat]
                             /\ diskCfg' = cfg'
                        ELSE /\ pc' = "send"
                             /\ cur'.reply = "need_start"
                             /\ cfg' = cfg
                             /\ diskCfg' = diskCfg
                   ELSE /\ (pc' = "run") <=> (chat = bound)
                        /\ (pc' = "run") => ~cur'.bound_now
                        /\ (pc' = "send") => cur'.reply = "unauthorized"
                        /\ cfg' = cfg
                        /\ diskCfg' = diskCfg
            /\ (/\ pc = "handle" /\ cur.upd.kind = "callback_query"
                /\ chat # "" /\ cur.upd.cbid # "" /\ pc' = "answer")
                => /\ (cur'.reply = "unauthorized") <=> (bound = "" \/ chat # bound)
                   /\ cfg' = cfg
                   /\ diskCfg' = diskCfg
            /\ (pc = "handle" /\ pc' = "backoff")
                => /\ cur.upd.kind = "message"
                   /\ bound = ""
                   /\ start
                   /\ diskCfg' = diskCfg ]_vars

\* C7 witness: a /START@handle message has just bound its conversation and
\* the command is about to run.
C7_Witness ==
    pc = "run" /\ cur.bound_now /\ cur.upd.text.w = "/START" /\ BoundId(cfg) = cur.upd.chat

\* C8: while the dispatcher runs with a bound conversation, no step changes
\* allowed_chat_id in memory, the value on disk changes at most to the value
\* in memory, and a /start from another conversation is answered as
\* unauthorized.
C8_BindingNeverChanges ==
    [][ /\ (pc \in Running /\ pc' \in Running /\ BoundId(cfg) # "")
            => /\ cfg'.allowed_chat_id = cfg.allowed_chat_id
               /\ diskCfg'.allowed_chat_id \in {diskCfg.allowed_chat_id, cfg.allowed_chat_id}
        /\ (/\ pc = "handle" /\ cur.upd.kind = "message"
            /\ pc' \in Running \ {"handle"}
            /\ BoundId(cfg) # "" /\ cur.upd.chat \notin {"", BoundId(cfg)}
            /\ parse_command(cur.upd.text).cmd = "/start")
            => pc' = "send" /\ cur'.reply = "unauthorized" ]_vars

\* C8 witness: conversation c1 was bound by first contact and a /start of c2
\* is being answered as unauthorized.
C8_Witness ==
    /\ pc = "send" /\ cur.reply = "unauthorized" /\ cur.cmd = "/start"
    /\ cur.upd.chat = "c2" /\ boundChat = "c1" /\ cfg.allowed_chat_id = "c1"

\* C9: while the command of a binding /start runs and while its replies are
\* sent, the Configuration on disk already names the conversation; from the
\* binding on, the disk names it in every state, and so does every process
\* started later.
C9_BindPersistedBeforeExecution ==
    /\ (cur.bound_now /\ pc \in {"run", "send"})
           => diskCfg.allowed_chat_id = cur.upd.chat
    /\ boundChat # ""
           => /\ diskCfg.allowed_chat_id = boundChat
              /\ pc \in Running => BoundId(cfg) = boundChat

\* C9 witness: the process was killed after a binding and the restarted
\* process runs with the conversation bound.
C9_Witness ==
    pc \in Running /\ stop = "crash" /\ boundChat = "c1" /\ BoundId(cfg) = "c1"

\* ----------------------------------------------------------------- claim C10
\* The plain (not forced, not dry-run) ticks of today, in order.
TickPairs == { p \in (1..Len(tickLog)) \X (1..Len(tickLog)) : p[1] < p[2] }

\* Two plain ticks inside a work tree, busy mode active at both, the first
\* finding that today's protective commit has not been recorded yet.
TwoTicks(p) ==
    /\ tickLog[p[1]].active /\ tickLog[p[2]].active
    /\ tickLog[p[1]].fresh
    /\ tickLog[p[1]].out # "err_norepo" /\ tickLog[p[2]].out # "err_norepo"

\* C10 as stated: the two ticks append one heartbeat line in total and start
\* exactly one add/commit/push attempt, and the second is the already-done
\* skip.
C10_OneAppendOneCommitAttempt ==
    \A p \in TickPairs : TwoTicks(p) =>
        /\ tickLog[p[1]].hb + tickLog[p[2]].hb = 1
        /\ tickLog[p[1]].add /\ ~tickLog[p[2]].add
        /\ tickLog[p[2]].out = "skip_done"

\* C10 amended: the two ticks append exactly one heartbeat line, by the
\* first; the first starts the add/commit/push attempt iff a branch could be
\* determined, and runs git commit iff git add then succeeded; the second
\* appends nothing, runs no git command and is the already-done skip.
C10_OneAppendAtMostOneCommitAttempt ==
    \A p \in TickPairs : TwoTicks(p) =>
        /\ tickLog[p[1]].hb = 1 /\ tickLog[p[2]].hb = 0
        /\ tickLog[p[1]].add <=> tickLog[p[1]].out # "err_branch"
        /\ tickLog[p[1]].commit <=> tickLog[p[1]].out \notin {"err_branch", "err_add"}
        /\ ~tickLog[p[2]].add /\ ~tickLog[p[2]].commit
        /\ tickLog[p[2]].out = "skip_done"

\* C10 witness: the first tick could not determine a branch, so it appended
\* the heartbeat line without any commit attempt, and the second tick was
\* skipped as already done.
C10_Witness ==
    /\ Len(tickLog) = 2 /\ TwoTicks(<< 1, 2 >>)
    /\ tickLog[1].out = "err_branch" /\ tickLog[1].hb = 1
    /\ tickLog[2].out = "skip_done"

\* ----------------------------------------------------------------- claim C11
\* The step is an invocation by hand of subcommand name inside a git work
\* tree (ensure_git_repo passed).
Called(name) ==
    /\ today' = today
    /\ inv'.run.cmd = name
    /\ inv'.run.out # "err_norepo"

\* Outputs of a tick that went past its two gates.
TickProceeded == {"err_branch", "err_add", "err_commit", "err_push", "done"}

\* C11: inside a work tree, a tick without --dry-run appends one heartbeat
\* line, records today as last_commit_date and goes on to the commit step
\* (branch resolution, then git add iff a branch was found) iff --force is
\* given or busy mode is active and last_commit_date is not today; otherwise
\* it is a skip: nothing appended, state and configuration documents and the
\* repository as before, no git add, commit or push, exit status 0.
C11_TickProceedsIffForcedOrDue ==
    [][ (Called("tick") /\ ~inv'.dry) =>
            IF inv'.force \/ (is_busy_active(World, today) /\ skState.last_commit_date # today)
            THEN /\ hbLines' = hbLines + 1
                 /\ skState'.last_commit_date = today
                 /\ inv'.run.out \in TickProceeded
                 /\ inv'.run.add <=> inv'.run.out # "err_branch"
            ELSE /\ hbLines' = hbLines
                 /\ skState' = skState
                 /\ skCfg' = skCfg
                 /\ mtSections' = mtSections
                 /\ commitDay' = commitDay
                 /\ ~inv'.run.add /\ ~inv'.run.commit /\ ~inv'.run.push
                 /\ inv'.run.rc = 0
                 /\ inv'.run.out \in {"skip_not_busy", "skip_expired", "skip_done"} ]_vars

\* C11 witness: a forced tick went through on a day whose protective commit
\* was already recorded, busy mode being off.
C11_Witness ==
    /\ inv.run.cmd = "tick" /\ inv.force /\ ~inv.dry /\ inv.run.out = "done"
    /\ hbLines = 2 /\ skCfg.busy_until = NoDate /\ skState.last_commit_date = today

\* ----------------------------------------------------------------- claim C12
\* C12: busy --days N on day d leaves busy_until = d + max(N, 1) - 1, and
\* status reports busy mode active exactly when a busy_until is set and
\* today is not after it: still active on the last day of the window,
\* inactive from the day after.
C12_BusyWindow ==
    [][ /\ Called("busy")
            => /\ skCfg'.busy_until = today + (IF inv'.days >= 1 THEN inv'.days ELSE 1) - 1
               /\ inv'.run.rc = 0
        /\ Called("status")
            => /\ (inv'.run.out = "AKTIF")
                     <=> (skCfg.busy_until # NoDate /\ today <= skCfg.busy_until)
               /\ inv'.run.out \in {"AKTIF", "PASIF"} ]_vars

\* C12 witness: on the day after the last day of a window that was set
\* yesterday, status reports busy mode inactive.
C12_Witness ==
    /\ inv.run.cmd = "status" /\ inv.run.out = "PASIF"
    /\ skCfg.busy_until # NoDate /\ today = skCfg.busy_until + 1

\* ----------------------------------------------------------- claims C13, C14
\* C13: within one calendar day is_reminder_due is true in at most one
\* iteration of the dispatcher loop.
C13_DueAtMostOncePerDay ==
    remHist.due <= 1

\* C14: at most one reminder notification is sent per calendar day, across
\* iterations, failures and restarts from the persisted RuntimeState.
C14_OneReminderPerDay ==
    remHist.sent <= 1

\* ----------------------------------------------------------------- claim C15
\* C15: every evaluation of is_reminder_due by the loop is false when
\* reminders are disabled, false when the time of day is earlier than the
\* configured (hour, minute), false when last_reminder_date is today, and
\* otherwise true exactly when no commit has landed today.
C15_ReminderDueTable ==
    [][ (pc = "batch" /\ updates = << >> /\ pc' \in {"remind", "save"}) =>
            LET due    == remHist'.due = remHist.due + 1
                before == TimeBefore(Times[clock], << cfg.reminder_hour, cfg.reminder_minute >>)
            IN  /\ ~cfg.reminder_enabled => ~due
                /\ before => ~due
                /\ state.last_reminder_date = today => ~due
                /\ (cfg.reminder_enabled /\ ~before /\ state.last_reminder_date # today)
                       => (due <=> commitDay # today) ]_vars

\* C15 witness: reminder time 21:30, it is 21:31, no commit and no reminder
\* today: the reminder was found due.
C15_Witness ==
    /\ pc = "remind" /\ Times[clock] = << 21, 31 >>
    /\ cfg.reminder_hour = 21 /\ cfg.reminder_minute = 30
    /\ commitDay # today /\ state.last_reminder_date # today

\* ----------------------------------------------------------------- claim C16
\* A field of HH:MM written with decimal digits only.
DecimalField(p) == Len(p) > 0 /\ \A i \in 1..Len(p) : p[i] \in DecimalChars

\* Exactly one HH:MM token with 0 <= H <= 23 and 0 <= M <= 59.
ValidReminderArgs(args) ==
    /\ Len(args) = 1
    /\ Len(SplitColon(args[1])) = 2
    /\ LET hm == SplitColon(args[1])
       IN  /\ DecimalField(hm[1]) /\ DecimalField(hm[2])
           /\ ToInt(hm[1]) \in 0..23 /\ ToInt(hm[2]) \in 0..59

\* C16: set-reminder with an argument that is not one valid HH:MM token
\* returns an error reply and leaves Configuration unchanged in memory and on
\* disk; with a valid argument, once Configuration is written, hour and
\* minute are the given values, reminders are enabled and the document on
\* disk is the one in memory.
C16_SetReminderValidates ==
    [][ (pc = "run" /\ cur.cmd = "/setreminder" /\ pc' # "run") =>
            IF ValidReminderArgs(cur.args)
            THEN pc' = "send" =>
                    /\ cfg'.reminder_hour = ToInt(SplitColon(cur.args[1])[1])
                    /\ cfg'.reminder_minute = ToInt(SplitColon(cur.args[1])[2])
                    /\ cfg'.reminder_enabled
                    /\ diskCfg' = cfg'
                    /\ cur'.reply = "reminder_set"
            ELSE /\ pc' = "send"
                 /\ cur'.reply \in {"usage", "bad_format"}
                 /\ cfg' = cfg
                 /\ diskCfg' = diskCfg ]_vars

\* ----------------------------------------------------------------- claim C20
\* The callback data of the buttons of the panel.
CallbackTable ==
    { "act:streak", "act:status", "act:tick", "act:maintain", "act:busy1", "act:busy3",
      "act:off", "act:reminder_on", "act:reminder_off", "act:reminder_2130", "act:panel" }

\* The update being handled is a button press of the bound conversation whose
\* data is not in the table.
UnknownPress ==
    /\ pc \in {"handle", "answer"}
    /\ cur.upd.kind = "callback_query"
    /\ cur.upd.cbid # "" /\ cur.upd.chat = BoundId(cfg)
    /\ cur.upd.data \notin CallbackTable

\* C20: a button press (of the bound conversation) whose callback data is not
\* in the lookup table is answered with the unknown-button acknowledgment and
\* executes nothing: no action runs, no message is sent, and Configuration,
\* streak state and repository are unchanged.
C20_UnknownButtonExecutesNothing ==
    [][ (UnknownPress /\ pc' # pc) =>
            /\ pc = "handle" => (pc' = "answer" /\ cur'.reply = "unknown_button")
            /\ pc = "answer" =>
                  \/ /\ pc' = "batch"
                     /\ sent' = Append(sent, [call |-> "answerCallbackQuery",
                                              to |-> cur.upd.chat, text |-> "unknown_button"])
                  \/ pc' = "backoff" /\ sent' = << >>
            /\ UNCHANGED << cfg, diskCfg, repo >> ]_vars

\* C20 witness: the press of the unknown button was acknowledged and its
\* handler returned.
C20_Witness ==
    /\ pc = "batch"
    /\ \E i \in 1..Len(sent) :
          sent[i] = [call |-> "answerCallbackQuery", to |-> "c1", text |-> "unknown_button"]
    /\ \E u \in handled : u > 0

StreakReturns ==
    /\ pc \in {"run", "act"}
    /\ cur.cmd = "/streak" \/ cur.action = "streak"
    /\ pc' = "send"

\* C17 as stated: streak does nothing when a commit has landed today (no
\* tick, no snapshot, nothing appended); when no commit has landed today, at
\* least one artifact (heartbeat line or maintenance section) has been
\* appended by the time it returns.
C17_StreakAlwaysLeavesArtifact ==
    [][ StreakReturns =>
            IF commitDay = today
            THEN /\ UNCHANGED << hbLines, mtSections, skState, skCfg, commitDay, tickLog >>
                 /\ cur'.reply = "already_commit"
            ELSE hbLines' > hbLines \/ mtSections' > mtSections ]_vars

\* C17 amended: the same, the artifact being promised only when the action
\* does not end with the not-a-git-repository error of ensure_git_repo.
C17_StreakLeavesArtifactInWorkTree ==
    [][ StreakReturns =>
            IF commitDay = today
            THEN /\ UNCHANGED << hbLines, mtSections, skState, skCfg, commitDay, tickLog >>
                 /\ cur'.reply = "already_commit"
            ELSE cur'.reply # "err_norepo" =>
                    (hbLines' > hbLines \/ mtSections' > mtSections) ]_vars

\* C17 witness: no commit today, the tick of the streak command was skipped
\* (today's tick is already recorded) and the snapshot fallback appended a
\* section and committed.
C17_Witness ==
    /\ pc = "send" /\ cur.cmd = "/streak" /\ cur.reply = "done"
    /\ tickLog # << >> /\ tickLog[Len(tickLog)].out = "skip_done"
    /\ mtSections > 0 /\ hbLines > 0

\* ----------------------------------------------------------------- claim C18
\* Outputs of an invocation that failed at branch resolution, git add, git
\* commit or git push: the diagnostic it printed.
Diagnostics == {"err_branch", "err_add", "err_commit", "err_push"}

\* C18: when an action run for a chat command or a button fails, the reply
\* returned for it carries the failure's diagnostic; here for the tick that
\* the action ran: a tick that failed is never answered with a reply that does
\* not carry its diagnostic.
C18_FailedTickSurfaced ==
    [][ (pc \in {"run", "act"} /\ pc' = "send" /\ Len(tickLog') = Len(tickLog) + 1) =>
            LET t == tickLog'[Len(tickLog')]
            IN  t.out \in Diagnostics => cur'.reply = t.out ]_vars

\* ----------------------------------------------------------------- claim C21
\* Outputs of a maintain that went on to the commit step.
MaintainProceeded ==
    {"err_branch", "err_add", "err_commit", "err_push", "done", "done_nopush"}

\* C21: inside a work tree, every maintain without --dry-run appends exactly
\* one section and goes on to the commit step (branch resolution, then git
\* add iff a branch was found), whatever busy_until and last_commit_date are
\* and however often it already ran that day; busy_until and
\* last_commit_date are left as they were.
C21_MaintainNotGated ==
    [][ (Called("maintain") /\ ~inv'.dry) =>
            /\ mtSections' = mtSections + 1
            /\ inv'.run.mt = 1
            /\ hbLines' = hbLines
            /\ inv'.run.out \in MaintainProceeded
            /\ inv'.run.add <=> inv'.run.out # "err_branch"
            /\ skCfg' = skCfg
            /\ skState' = skState ]_vars

\* C21 witness: the second maintain of the first day went through although
\* busy mode is off and today's tick is already recorded.
C21_Witness ==
    /\ inv.run.cmd = "maintain" /\ ~inv.dry /\ inv.run.out = "done"
    /\ today = 1 /\ mtSections = 2
    /\ skCfg.busy_until = NoDate /\ skState.last_commit_date = today

\* ----------------------------------------------------------------- claim C23
\* C23: a tick or maintain whose git add, commit or push fails stops at that
\* step (no commit after a failed add, no push after a failed commit), exits
\* with status 1, and the heartbeat line or maintenance section it appended
\* before the git steps stays in the artifact.
C23_GitFailureAborts ==
    [][ (today' = today /\ inv'.run.cmd \in {"tick", "maintain"}
            /\ inv'.run.out \in {"err_add", "err_commit", "err_push"}) =>
            /\ inv'.run.rc = 1
            /\ inv'.run.add
            /\ inv'.run.out = "err_add" => (~inv'.run.commit /\ ~inv'.run.push)
            /\ inv'.run.out = "err_commit" => (inv'.run.commit /\ ~inv'.run.push)
            /\ inv'.run.out = "err_push" => (inv'.run.commit /\ inv'.run.push)
            /\ IF inv'.run.cmd = "tick"
               THEN hbLines' = hbLines + 1 /\ mtSections' = mtSections
               ELSE mtSections' = mtSections + 1 /\ hbLines' = hbLines ]_vars

\* C23 witness: the git commit of a maintain failed; its section is in the
\* artifact, nothing was pushed and the exit status is 1.
C23_Witness ==
    /\ inv.run.cmd = "maintain" /\ inv.run.out = "err_commit" /\ inv.run.rc = 1
    /\ inv.run.commit /\ ~inv.run.push
    /\ mtSections = 1 /\ commitDay = NoDate

\* ----------------------------------------------------------------- claim C24
\* C24: a tick without --dry-run that passed its gates has saved
\* last_commit_date = today even when branch resolution, add, commit or push
\* failed; the saved date stays for the rest of the day; and a tick without
\* --force on a day whose date is saved is a skip (the already-done skip while
\* busy mode is active) that runs no git add, commit or push.
C24_FailedTickStillBlocksTheDay ==
    [][ /\ (Called("tick") /\ ~inv'.dry
                /\ inv'.run.out \in {"err_branch", "err_add", "err_commit", "err_push"})
            => (skState'.last_commit_date = today /\ inv'.run.saved)
        /\ (today' = today /\ skState.last_commit_date = today)
            => skState'.last_commit_date = today
        /\ (Called("tick") /\ ~inv'.force /\ skState.last_commit_date = today)
            => /\ inv'.run.out \in {"skip_not_busy", "skip_expired", "skip_done"}
               /\ is_busy_active(World, today) => inv'.run.out = "skip_done"
               /\ ~inv'.run.add /\ ~inv'.run.commit /\ ~inv'.run.push
               /\ hbLines' = hbLines ]_vars

\* C24 witness: today's tick failed before its commit landed, and the tick
\* without --force that followed on the same day was skipped as already done.
C24_Witness ==
    /\ inv.run.cmd = "tick" /\ ~inv.force /\ ~inv.dry /\ inv.run.out = "skip_done"
    /\ skState.last_commit_date = today /\ commitDay # today
    /\ hbLines = 1

\* ----------------------------------------------------------------- claim C22
\* The handler of an authorized update is in run_command or run_action.
ExecutingAction == pc \in {"run", "act"}

\* C22: an interrupt never ends the process while a command or button action
\* is being executed; the action runs to completion first.
C22_InterruptNeverCutsAction ==
    [][ (stop' = "interrupt" /\ pc # "exited" /\ pc' = "exited") => ~ExecutingAction ]_vars

\* ----------------------------------------------------------------- claim C25
\* C25: while no conversation is bound, a button press is answered with the
\* unauthorized acknowledgment and nothing else, and Configuration keeps its
\* empty allowed_chat_id in memory and on disk, auto-bind enabled or not; the
\* only step of a running dispatcher that binds a conversation is the
\* handling of a /start text message.
C25_CallbackNeverBinds ==
    [][ /\ (pc = "handle" /\ cur.upd.kind = "callback_query" /\ BoundId(cfg) = ""
                /\ cur.upd.cbid # "" /\ cur.upd.chat # "" /\ pc' \in Running)
            => /\ pc' = "answer"
               /\ cur'.reply = "unauthorized" /\ cur'.then = "done"
               /\ cfg' = cfg /\ diskCfg' = diskCfg
        /\ (pc = "answer" /\ BoundId(cfg) = "" /\ pc' \in Running)
            => /\ \/ /\ pc' = "batch"
                     /\ sent' = Append(sent, [call |-> "answerCallbackQuery",
                                              to |-> cur.upd.chat, text |-> "unauthorized"])
                  \/ pc' = "backoff"
               /\ cfg' = cfg /\ diskCfg' = diskCfg
        /\ (pc \in Running /\ pc' \in Running /\ BoundId(cfg) = "" /\ BoundId(cfg') # "")
            => /\ pc = "handle" /\ cur.upd.kind = "message"
               /\ parse_command(cur.upd.text).cmd = "/start" ]_vars

\* C25 witness: auto-bind is enabled, no conversation is bound, and the press
\* of a button was answered with the unauthorized acknowledgment.
C25_Witness ==
    /\ pc = "batch" /\ BoundId(cfg) = "" /\ cfg.auto_bind_chat_on_start
    /\ Strip(diskCfg.allowed_chat_id) = ""
    /\ \E i \in 1..Len(sent) :
          sent[i] = [call |-> "answerCallbackQuery", to |-> "c2", text |-> "unauthorized"]

\* ----------------------------------------------------------------- claim C26
\* The update being handled comes from a conversation that is not authorized:
\* it is not the bound conversation, and it is not a /start message that
\* binds (nothing bound and auto-bind on).
UnauthorizedUpdate ==
    /\ pc \in {"handle", "send", "answer"}
    /\ cur.upd.chat # "" /\ cur.upd.chat # BoundId(cfg)
    /\ cur.upd.kind = "message" =>
          LET cmd == parse_command(cur.upd.text).cmd
          IN  cmd # "" /\ ~(BoundId(cfg) = "" /\ cfg.auto_bind_chat_on_start /\ cmd = "/start")
    /\ cur.upd.kind = "callback_query" => cur.upd.cbid # ""
    /\ cur.upd.kind \in {"message", "callback_query"}

\* C26: the handling of an update from a conversation that is not authorized
\* never reaches run_command or run_action, leaves Configuration (in memory
\* and on disk), streak config and state and the repository unchanged, sends
\* exactly one rejection (a message for a message, an acknowledgment for a
\* button press) and nothing else, and the offset is already past the update.
C26_UnauthorizedExecutesNothing ==
    [][ (UnauthorizedUpdate /\ pc' \in Running) =>
            /\ pc' \notin {"run", "act"}
            /\ UNCHANGED << cfg, diskCfg, repo >>
            /\ offset' = offset /\ offset > cur.upd.update_id
            /\ pc = "handle" =>
                  /\ pc' = IF cur.upd.kind = "message" THEN "send" ELSE "answer"
                  /\ cur'.then = "done"
                  /\ sent' = sent
            /\ pc \in {"send", "answer"} =>
                  \/ /\ pc' = "batch"
                     /\ cur.upd.update_id \in handled'
                     /\ \E text \in {"unauthorized", "need_start"} :
                           sent' = Append(sent,
                                     [call |-> IF cur.upd.kind = "message"
                                               THEN "sendMessage" ELSE "answerCallbackQuery",
                                      to |-> cur.upd.chat, text |-> text])
                  \/ pc' = "backoff" ]_vars

\* C26 witness: c1 is bound, the /start of c2 was answered with the rejection
\* and nothing was written.
C26_Witness ==
    /\ pc = "batch" /\ BoundId(cfg) = "c1"
    /\ \E i \in 1..Len(sent) :
          sent[i] = [call |-> "sendMessage", to |-> "c2", text |-> "unauthorized"]
    /\ offset > 1

\* ----------------------------------------------------------------- claim C27
\* C27: while no conversation is bound, the iteration goes from the batch
\* straight to the save of RuntimeState, is_reminder_due true or not: no
\* reminder is sent and last_reminder_date is not recorded. In a running
\* dispatcher last_reminder_date changes only in the step in which the
\* reminder notification to the bound conversation was sent, and becomes
\* today.
C27_LatchOnlyAfterSend ==
    [][ /\ (pc = "batch" /\ updates = << >> /\ BoundId(cfg) = "" /\ pc' # pc)
            => /\ pc' \in {"save", "backoff"}
               /\ state' = state
               /\ remHist'.sent = remHist.sent
               /\ \A i \in 1..Len(sent') : sent'[i].text # "reminder"
        /\ (pc \in Running /\ pc' \in Running
                /\ state'.last_reminder_date # state.last_reminder_date)
            => /\ pc = "remind" /\ pc' = "save"
               /\ BoundId(cfg) # ""
               /\ sent' = Append(sent, [call |-> "sendMessage", to |-> BoundId(cfg),
                                        text |-> "reminder"])
               /\ state'.last_reminder_date = today
        /\ remHist'.sent > remHist.sent => BoundId(cfg) # "" ]_vars

\* C27 witness: nothing is bound, is_reminder_due was true in this iteration,
\* and the iteration is at the save with no reminder sent and no latch.
C27_Witness ==
    /\ pc = "save" /\ BoundId(cfg) = ""
    /\ remHist.due > 0 /\ remHist.sent = 0
    /\ is_reminder_due(cfg, state, World, today, Times[clock])
    /\ state.last_reminder_date = NoDate

\* ----------------------------------------------------------------- claim C28
\* C28: a process starts with offset = persisted last_update_id + 1; while
\* it runs, no step lowers the offset, and after every step the offset is at
\* least the last_update_id in memory + 1.
C28_OffsetMonotone ==
    [][ /\ (pc \notin Running /\ pc' \in Running)
            => offset' = diskState.last_update_id + 1
        /\ (pc \in Running /\ pc' \in Running) => offset' >= offset
        /\ pc' \in Running => offset' >= state'.last_update_id + 1 ]_vars

\* C28 witness: a batch listed update 2 before update 1; after both were
\* taken the offset is 3 and last_update_id in memory is 1.
C28_Witness ==
    /\ pc \in Running
    /\ offset = 3 /\ state.last_update_id = 1
    /\ handled = {2}

====
